---- MODULE Spec2Model ----
(***************************************************************************)
(* env-audit: the multi-source extraction-and-merge pipeline.              *)
(*                                                                         *)
(* The specifications of this module share its variables.                  *)
(*   MergeSpec  drives the exported utility mergeFindings with bounded     *)
(*              lists of Findings.                                         *)
(*   Spec       drives Scanner.scan over a bounded project: the four       *)
(*              providers finish in any order, then the scanner merges.    *)
(*   RunSpec    is the same scan with provider filters in the options and  *)
(*              providers whose scan rejects.                              *)
(*   BatchSpec  is the same scan over files that are too large, unreadable *)
(*              or malformed.                                              *)
(*   AstSpec    drives the AstProvider's analysis of one code file.        *)
(*   DotenvSpec drives the DotenvProvider on one KEY=value line.           *)
(*   ShellSpec  drives the ShellProvider on the text of one script.        *)
(*   YamlSpec   drives the YamlProvider on one compose or workflow         *)
(*              document, then the scanner's merge of its findings.        *)
(***************************************************************************)
EXTENDS Integers, Sequences, FiniteSets, TLC

VARIABLES
    findings,      \* MergeSpec: the argument list built for mergeFindings
    outcome,       \* MergeSpec: what mergeFindings did with it
    project,       \* Spec: what is written in the scanned files, in writing order
    scanOptions,   \* Spec: the normalized ScanOptions of the scan
    disk,          \* Spec: file -> its size and whether it can be read and parsed
    rejecting,     \* Spec: the providers whose scan rejects
    providerPromises, \* Spec: provider name -> what its promise settled with
    firstSettled,  \* Spec: the provider whose promise settled first (history)
    scanResult,    \* Spec: what Scanner.scan returned
    statements,    \* AstSpec: the statements of the code file, in source order
    extracted,     \* AstSpec: the EnvVarNodes and Findings the AstProvider made of them
    fileContent,   \* DotenvSpec, ShellSpec, YamlSpec: what the one scanned file holds
    fileFindings   \* DotenvSpec, ShellSpec, YamlSpec: what the provider made of it

astVars == <<statements, extracted>>
fileVars == <<fileContent, fileFindings>>
vars == <<findings, outcome, project, scanOptions, disk, rejecting,
          providerPromises, firstSettled, scanResult, astVars, fileVars>>

(***************************************************************************)
(* Bounds of the model.                                                    *)
(***************************************************************************)
MaxGroup == 2      \* longest list handed to mergeFindings
MaxOcc == 2        \* most occurrences written in one project
MaxFaulty == 1     \* most files of a disk that are not healthy

(***************************************************************************)
(* JavaScript values.  An optional property is a record field that is      *)
(* present or absent; a record is a function, so two records with          *)
(* different field sets are simply different.                              *)
(***************************************************************************)
NoFields == [k \in {} |-> TRUE]

Has(obj, key) == key \in DOMAIN obj

\* { ...(cond ? { key: value } : {}) }
Opt(cond, key, value) == IF cond THEN (key :> value) ELSE NoFields

\* truthiness of a string
Truthy(s) == s # ""

(***************************************************************************)
(* utils: createFileRef, createFinding                                     *)
(***************************************************************************)
\* context is passed as a record: NoFields when the argument is undefined
createFileRef(filePath, line, column, ctx) ==
    [filePath |-> filePath, line |-> line, column |-> column]
        @@ Opt(Has(ctx, "context"), "context", IF Has(ctx, "context") THEN ctx.context ELSE "")

createFinding(name, source, files, options) ==
    [name |-> name,
     source |-> source,
     files |-> files,
     required |-> IF Has(options, "required") THEN options.required ELSE TRUE,
     isPublic |-> IF Has(options, "isPublic") THEN options.isPublic ELSE FALSE]
        @@ Opt(Has(options, "defaultValue"), "defaultValue",
               IF Has(options, "defaultValue") THEN options.defaultValue ELSE "")
        @@ Opt(Has(options, "notes"), "notes",
               IF Has(options, "notes") THEN options.notes ELSE <<>>)

(***************************************************************************)
(* utils: mergeFindings                                                    *)
(***************************************************************************)
sourceOrder == <<"ast", "process", "importmeta", "dotenv", "shell", "docker", "gha">>

\* the predicate of uniqueFiles' findIndex
SamePosition(f, file) ==
    f.filePath = file.filePath /\ f.line = file.line /\ f.column = file.column

\* arr.findIndex(f => SamePosition(f, file)), 1-based; 0 when none
findIndex(arr, file) ==
    IF \E i \in 1..Len(arr) : SamePosition(arr[i], file)
    THEN CHOOSE i \in 1..Len(arr) :
            /\ SamePosition(arr[i], file)
            /\ \A j \in 1..(i - 1) : ~SamePosition(arr[j], file)
    ELSE 0

\* findings.flatMap(f => f.files)
RECURSIVE allFiles(_)
allFiles(fs) ==
    IF fs = <<>> THEN <<>> ELSE Head(fs).files \o allFiles(Tail(fs))

RECURSIVE filterFirstAt(_, _)
filterFirstAt(arr, index) ==
    IF index > Len(arr) THEN <<>>
    ELSE (IF findIndex(arr, arr[index]) = index THEN <<arr[index]>> ELSE <<>>)
            \o filterFirstAt(arr, index + 1)

uniqueFilesKeepAll(arr) == arr

\* allFiles.filter((file, index, arr) => arr.findIndex(...) === index)
uniqueFiles(arr) == filterFirstAt(arr, 1)

primarySourceFirstMember(fs) == fs[1].source

\* sourceOrder.find(s => findings.some(f => f.source === s)) ?? findings[0].source
primarySource(fs) ==
    LET present == {k \in 1..Len(sourceOrder) :
                        \E i \in 1..Len(fs) : fs[i].source = sourceOrder[k]}
    IN  IF present # {}
        THEN sourceOrder[CHOOSE k \in present : \A m \in present : k <= m]
        ELSE fs[1].source

anyRequiredAll(fs) == \A i \in 1..Len(fs) : fs[i].required

\* findings.some(f => f.required)
anyRequired(fs) == \E i \in 1..Len(fs) : fs[i].required

anyPublicFirst(fs) == fs[1].isPublic

\* findings.some(f => f.isPublic)
anyPublic(fs) == \E i \in 1..Len(fs) : fs[i].isPublic

\* f.defaultValue is a non-empty string
HasDefault(f) == Has(f, "defaultValue") /\ Truthy(f.defaultValue)

firstDefaultByPriority(fs) ==
    LET withDefault == {i \in 1..Len(fs) : HasDefault(fs[i])}
        rank(i) == IF \E k \in 1..Len(sourceOrder) : sourceOrder[k] = fs[i].source
                   THEN CHOOSE k \in 1..Len(sourceOrder) : sourceOrder[k] = fs[i].source
                   ELSE Len(sourceOrder) + 1
    IN  IF withDefault = {} THEN NoFields
        ELSE LET best == CHOOSE i \in withDefault :
                            \A j \in withDefault :
                                rank(i) < rank(j) \/ (rank(i) = rank(j) /\ i <= j)
             IN  ("defaultValue" :> fs[best].defaultValue)

\* ...(findings.find(f => f.defaultValue) ? { defaultValue: ... } : {})
firstDefault(fs) ==
    LET withDefault == {i \in 1..Len(fs) : HasDefault(fs[i])}
    IN  IF withDefault = {} THEN NoFields
        ELSE LET first == CHOOSE i \in withDefault : \A j \in withDefault : i <= j
             IN  ("defaultValue" :> fs[first].defaultValue)

\* findings.flatMap(f => f.notes ?? [])
RECURSIVE allNotes(_)
allNotes(fs) ==
    IF fs = <<>> THEN <<>>
    ELSE (IF Has(Head(fs), "notes") THEN Head(fs).notes ELSE <<>>) \o allNotes(Tail(fs))

\* ...(findings.some(f => f.notes?.length) ? { notes: ... } : {})
mergedNotes(fs) ==
    Opt(\E i \in 1..Len(fs) : Has(fs[i], "notes") /\ Len(fs[i].notes) > 0,
        "notes", allNotes(fs))

Thrown(message) == [kind |-> "throw", message |-> message]
Returned(value) == [kind |-> "return", value |-> value]

foldFindingsInOrder(fs) ==
    createFinding(fs[1].name, fs[1].source, uniqueFiles(allFiles(fs)),
                  [required |-> fs[1].required, isPublic |-> anyPublic(fs)]
                      @@ firstDefault(fs) @@ mergedNotes(fs))

\* the fold of a list of two or more same-named findings
foldFindings(fs) ==
    createFinding(fs[1].name, primarySource(fs), uniqueFiles(allFiles(fs)),
                  [required |-> anyRequired(fs), isPublic |-> anyPublic(fs)]
                      @@ firstDefault(fs) @@ mergedNotes(fs))

mergeFindingsAlwaysFold(fs) ==
    IF Len(fs) = 0 THEN Thrown("Cannot merge empty findings array")
    ELSE IF \E i \in 1..Len(fs) : fs[i].name # fs[1].name
    THEN Thrown("All findings must have the same name to merge")
    ELSE Returned(foldFindings(fs))

mergeFindingsEmptyDefault(fs) ==
    IF Len(fs) = 0 THEN Returned(createFinding("", "ast", <<>>, NoFields))
    ELSE IF Len(fs) = 1 THEN Returned(fs[1])
    ELSE IF \E i \in 1..Len(fs) : fs[i].name # fs[1].name
    THEN Thrown("All findings must have the same name to merge")
    ELSE Returned(foldFindings(fs))

mergeFindings(fs) ==
    IF Len(fs) = 0 THEN Thrown("Cannot merge empty findings array")
    ELSE IF Len(fs) = 1 THEN Returned(fs[1])
    ELSE IF \E i \in 1..Len(fs) : fs[i].name # fs[1].name
    THEN Thrown("All findings must have the same name to merge")
    ELSE Returned(foldFindings(fs))

(***************************************************************************)
(* MergeSpec: mergeFindings driven with bounded argument lists.            *)
(*                                                                         *)
(* The Findings offered are two base Findings and every Finding that       *)
(* differs from a base in one property, over the domains below.            *)
(***************************************************************************)
KnownSources == {sourceOrder[k] : k \in 1..Len(sourceOrder)}
FutureSources == {"k8s", "helm"}      \* tags outside the priority list

RefA == createFileRef("/p/app.ts", 1, 1, NoFields)
RefPool ==
    {RefA,
     createFileRef("/p/app.ts", 1, 1, [context |-> "hint one"]),
     createFileRef("/p/app.ts", 1, 1, [context |-> "hint two"]),
     createFileRef("/p/app.ts", 2, 1, NoFields),
     createFileRef("/p/app.ts", 1, 2, NoFields),
     createFileRef("/p/.env", 1, 1, NoFields)}

FilesPool == {<<r>> : r \in RefPool} \cup {<<RefA, r>> : r \in RefPool}
DefaultPool == {NoFields} \cup {("defaultValue" :> d) : d \in {"", "v", "w"}}
NotesPool == {NoFields} \cup {("notes" :> n) : n \in {<<>>, <<"n1">>, <<"n1", "n2">>}}

BaseFindings ==
    {[name |-> "X", source |-> "ast", files |-> <<RefA>>, required |-> TRUE,
      isPublic |-> FALSE, dflt |-> NoFields, notes |-> NoFields],
     [name |-> "X", source |-> "gha", files |-> <<createFileRef("/p/.env", 1, 1, NoFields)>>,
      required |-> FALSE, isPublic |-> TRUE,
      dflt |-> ("defaultValue" :> "w"), notes |-> ("notes" :> <<"m">>)]}

OneOff(b) ==
    {b}
    \cup {[b EXCEPT !.name = n] : n \in {"X", "Y"}}
    \cup {[b EXCEPT !.source = s] : s \in KnownSources \cup FutureSources}
    \cup {[b EXCEPT !.files = fl] : fl \in FilesPool}
    \cup {[b EXCEPT !.required = r] : r \in BOOLEAN}
    \cup {[b EXCEPT !.isPublic = p] : p \in BOOLEAN}
    \cup {[b EXCEPT !.dflt = d] : d \in DefaultPool}
    \cup {[b EXCEPT !.notes = n] : n \in NotesPool}

FindingPool ==
    {createFinding(d.name, d.source, d.files,
                   [required |-> d.required, isPublic |-> d.isPublic] @@ d.dflt @@ d.notes) :
        d \in UNION {OneOff(b) : b \in BaseFindings}}

Pending == [kind |-> "pending"]
NoProject == <<>>
NoProvider == ""

MergeInit ==
    /\ findings = <<>>
    /\ outcome = Pending
    /\ project = NoProject
    /\ scanOptions = NoFields
    /\ disk = NoFields
    /\ rejecting = {}
    /\ providerPromises = NoFields
    /\ firstSettled = NoProvider
    /\ scanResult = Pending
    /\ statements = <<>>
    /\ extracted = Pending
    /\ fileContent = <<>>
    /\ fileFindings = Pending

\* the caller appends one more Finding to the list it will merge
AddFinding(f) ==
    /\ outcome = Pending
    /\ Len(findings) < MaxGroup
    /\ findings' = Append(findings, f)
    /\ UNCHANGED <<outcome, project, scanOptions, disk, rejecting,
                   providerPromises, firstSettled, scanResult, astVars, fileVars>>

\* the call mergeFindings(findings)
CallMergeFindings ==
    /\ outcome = Pending
    /\ outcome' = mergeFindings(findings)
    /\ UNCHANGED <<findings, project, scanOptions, disk, rejecting,
                   providerPromises, firstSettled, scanResult, astVars, fileVars>>

MergeNext ==
    \/ \E f \in FindingPool : AddFinding(f)
    \/ CallMergeFindings

MergeSpec == MergeInit /\ [][MergeNext]_vars

(***************************************************************************)
(* Text.  A text the code takes apart is a sequence of one-character       *)
(* strings; Join spells such a sequence as the string it denotes.          *)
(***************************************************************************)
UpperLetters == {"A", "B", "C", "D", "E", "F", "G", "H", "I", "J", "K", "L", "M",
                 "N", "O", "P", "Q", "R", "S", "T", "U", "V", "W", "X", "Y", "Z"}
LowerLetters == {"a", "b", "c", "d", "e", "f", "g", "h", "i", "j", "k", "l", "m",
                 "n", "o", "p", "q", "r", "s", "t", "u", "v", "w", "x", "y", "z"}
Digits == {"0", "1", "2", "3", "4", "5", "6", "7", "8", "9"}
UpperOf ==
    [c \in LowerLetters |->
        CASE c = "a" -> "A" [] c = "b" -> "B" [] c = "c" -> "C" [] c = "d" -> "D"
          [] c = "e" -> "E" [] c = "f" -> "F" [] c = "g" -> "G" [] c = "h" -> "H"
          [] c = "i" -> "I" [] c = "j" -> "J" [] c = "k" -> "K" [] c = "l" -> "L"
          [] c = "m" -> "M" [] c = "n" -> "N" [] c = "o" -> "O" [] c = "p" -> "P"
          [] c = "q" -> "Q" [] c = "r" -> "R" [] c = "s" -> "S" [] c = "t" -> "T"
          [] c = "u" -> "U" [] c = "v" -> "V" [] c = "w" -> "W" [] c = "x" -> "X"
          [] c = "y" -> "Y" [] c = "z" -> "Z"]

RECURSIVE Join(_)
Join(chars) == IF chars = <<>> THEN "" ELSE Head(chars) \o Join(Tail(chars))

\* text.substring(from, to) with 0-based from, exclusive to
Substring(text, from, to) == SubSeq(text, from + 1, to)

\* text.indexOf(c), 0-based; -1 when absent
indexOf(text, c) ==
    IF \E i \in 1..Len(text) : text[i] = c
    THEN (CHOOSE i \in 1..Len(text) : text[i] = c /\ \A j \in 1..(i - 1) : text[j] # c) - 1
    ELSE -1

\* (text.match(/c/g) || []).length
countOf(text, c) == Cardinality({i \in 1..Len(text) : text[i] = c})

RECURSIVE trimStart(_)
trimStart(text) ==
    IF text # <<>> /\ Head(text) = " " THEN trimStart(Tail(text)) ELSE text

RECURSIVE trimEnd(_)
trimEnd(text) ==
    IF text # <<>> /\ text[Len(text)] = " "
    THEN trimEnd(SubSeq(text, 1, Len(text) - 1)) ELSE text

trim(text) == trimEnd(trimStart(text))

startsWith(text, c) == text # <<>> /\ text[1] = c
endsWith(text, c) == text # <<>> /\ text[Len(text)] = c
toUpperCase(text) ==
    [i \in 1..Len(text) |-> IF text[i] \in LowerLetters THEN UpperOf[text[i]] ELSE text[i]]

\* length of the longest prefix matching [A-Za-z_][A-Za-z0-9_]*
identifierPrefix(text) ==
    IF text = <<>> \/ text[1] \notin (UpperLetters \cup LowerLetters \cup {"_"}) THEN 0
    ELSE LET ok(i) == text[i] \in (UpperLetters \cup LowerLetters \cup Digits \cup {"_"})
         IN  CHOOSE n \in 1..Len(text) :
                /\ \A i \in 1..n : ok(i)
                /\ (n = Len(text) \/ ~ok(n + 1))

\* the variable names the model's files use, with their spelling
Spell ==
    [DB_URL |-> <<"D", "B", "_", "U", "R", "L">>,
     VITE_API |-> <<"V", "I", "T", "E", "_", "A", "P", "I">>]
        @@ ("my-var" :> <<"m", "y", "-", "v", "a", "r">>)
        @@ [PATH |-> <<"P", "A", "T", "H">>, i |-> <<"i">>]
Names == {"DB_URL", "VITE_API"}

\* utils.isValidEnvVarName: /^[A-Za-z_][A-Za-z0-9_]*$/
isValidEnvVarName(name) ==
    name # "" /\ identifierPrefix(Spell[name]) = Len(Spell[name])

\* utils.isPublicVariable: prefixes.some(prefix => name.startsWith(prefix));
\* a prefix is given spelled
isPublicVariable(name, prefixes) ==
    /\ name # ""
    /\ \E k \in 1..Len(prefixes) :
          /\ Len(prefixes[k]) <= Len(Spell[name])
          /\ SubSeq(Spell[name], 1, Len(prefixes[k])) = prefixes[k]

(***************************************************************************)
(* DotenvProvider                                                          *)
(***************************************************************************)
placeholders ==
    {<<>>,
     <<"Y", "O", "U", "R", "_", "V", "A", "L", "U", "E", "_", "H", "E", "R", "E">>,
     <<"C", "H", "A", "N", "G", "E", "_", "M", "E">>,
     <<"R", "E", "P", "L", "A", "C", "E", "_", "M", "E">>,
     <<"T", "O", "D", "O">>,
     <<"T", "B", "D">>,
     <<".", ".", ".">>,
     <<"x", "x", "x">>,
     <<"X", "X", "X">>}

parseEnvValueKeepQuotes(value) ==
    IF value = <<>> THEN [hasValue |-> FALSE]
    ELSE IF toUpperCase(trim(value)) \in placeholders THEN [hasValue |-> FALSE]
    ELSE [value |-> trim(value), hasValue |-> TRUE]

\* DotenvProvider.parseEnvValue -> { value?, hasValue }
parseEnvValue(value) ==
    IF value = <<>> THEN [hasValue |-> FALSE]
    ELSE LET trimmed == trim(value)
             unquoted ==
                IF \/ (startsWith(trimmed, "\"") /\ endsWith(trimmed, "\""))
                   \/ (startsWith(trimmed, "'") /\ endsWith(trimmed, "'"))
                THEN SubSeq(trimmed, 2, Len(trimmed) - 1)
                ELSE trimmed
         IN  IF toUpperCase(unquoted) \in placeholders
             THEN [hasValue |-> FALSE]
             ELSE [value |-> unquoted, hasValue |-> TRUE]

\* the match of /^([A-Za-z_][A-Za-z0-9_]*)\s*=\s*(.*)$/ : NoFields when none
matchKeyValue(text) ==
    LET n == identifierPrefix(text)
        afterName == trimStart(SubSeq(text, n + 1, Len(text)))
    IN  IF n = 0 \/ ~startsWith(afterName, "=") THEN NoFields
        ELSE [name |-> SubSeq(text, 1, n), value |-> trimStart(Tail(afterName))]

\* DotenvProvider.parseEnvLine -> { name, defaultValue?, hasDefault, comment? } | null
\* (null is NoFields)
parseEnvLine(line) ==
    LET commentIndex == indexOf(line, "#")
        beforeComment == Substring(line, 0, commentIndex)
        isComment ==
            /\ commentIndex > 0
            /\ countOf(beforeComment, "'") % 2 = 0
            /\ countOf(beforeComment, "\"") % 2 = 0
        workingLine == IF isComment THEN trim(beforeComment) ELSE line
        match == matchKeyValue(workingLine)
    IN  IF match = NoFields \/ ~isValidEnvVarName(Join(match.name)) THEN NoFields
        ELSE LET parsedValue == parseEnvValue(match.value)
             IN  [name |-> Join(match.name), hasDefault |-> parsedValue.hasValue]
                    @@ Opt(Has(parsedValue, "value"), "defaultValue",
                           IF Has(parsedValue, "value") THEN Join(parsedValue.value) ELSE "")
                    @@ Opt(isComment, "comment",
                           Join(trim(Substring(line, commentIndex + 1, Len(line)))))

\* DotenvProvider.scanFile over the lines of one file (content.split('\n'))
RECURSIVE dotenvScanLines(_, _, _, _)
dotenvScanLines(lines, i, filePath, opts) ==
    IF i > Len(lines) THEN <<>>
    ELSE LET line == trim(lines[i])
             envVar == IF line = <<>> \/ startsWith(line, "#") THEN NoFields
                       ELSE parseEnvLine(line)
             fileRef == createFileRef(filePath, i, 1,
                            Opt(Has(envVar, "comment"), "context",
                                IF Has(envVar, "comment") THEN envVar.comment ELSE ""))
             finding ==
                createFinding(envVar.name, "dotenv", <<fileRef>>,
                    [required |-> ~envVar.hasDefault,
                     isPublic |-> isPublicVariable(envVar.name, opts.publicPrefixes)]
                        @@ Opt(Has(envVar, "defaultValue") /\ Truthy(envVar.defaultValue),
                               "defaultValue",
                               IF Has(envVar, "defaultValue") THEN envVar.defaultValue ELSE "")
                        @@ Opt(Has(envVar, "comment") /\ Truthy(envVar.comment),
                               "notes",
                               IF Has(envVar, "comment") THEN <<envVar.comment>> ELSE <<>>))
         IN  (IF envVar = NoFields THEN <<>> ELSE <<finding>>)
                \o dotenvScanLines(lines, i + 1, filePath, opts)

dotenvScanFile(lines, filePath, opts) ==
    IF lines = <<>> THEN <<>> ELSE dotenvScanLines(lines, 1, filePath, opts)

(***************************************************************************)
(* AstProvider.  The syntax tree is not modelled: a code file is given as  *)
(* the EnvVarNodes that extractEnvVariables collects from it, in traversal *)
(* order.                                                                  *)
(***************************************************************************)
\* index in map (the values of findingsMap, in insertion order) of the entry
\* with key `${source}:${name}`; 0 when absent
mapIndex(map, source, name) ==
    IF \E k \in 1..Len(map) : map[k].source = source /\ map[k].name = name
    THEN CHOOSE k \in 1..Len(map) : map[k].source = source /\ map[k].name = name
    ELSE 0

requiredAfterLast(existingRequired, hasGuards) == ~hasGuards

\* required: existing.required && !node.hasGuards
requiredAfter(existingRequired, hasGuards) == existingRequired /\ ~hasGuards

RECURSIVE convertNodesFrom(_, _, _, _, _)
convertNodesFrom(nodes, i, map, filePath, opts) ==
    IF i > Len(nodes) THEN map
    ELSE LET node == nodes[i]
             k == mapIndex(map, node.source, node.name)
             fileRef == createFileRef(filePath, node.location.start.line,
                                      node.location.start.column, NoFields)
             nodeDefault == Has(node, "defaultValue") /\ Truthy(node.defaultValue)
             updated ==
                createFinding(node.name, node.source, map[k].files \o <<fileRef>>,
                    [required |-> requiredAfter(map[k].required, node.hasGuards),
                     isPublic |-> map[k].isPublic
                                    \/ isPublicVariable(node.name, opts.publicPrefixes)]
                        @@ Opt(HasDefault(map[k]) \/ nodeDefault, "defaultValue",
                               IF Has(map[k], "defaultValue") THEN map[k].defaultValue
                               ELSE IF nodeDefault THEN node.defaultValue ELSE ""))
             created ==
                createFinding(node.name, node.source, <<fileRef>>,
                    [required |-> ~node.hasGuards,
                     isPublic |-> isPublicVariable(node.name, opts.publicPrefixes)]
                        @@ Opt(nodeDefault, "defaultValue",
                               IF nodeDefault THEN node.defaultValue ELSE ""))
         IN  convertNodesFrom(nodes, i + 1,
                              IF k > 0 THEN [map EXCEPT ![k] = updated]
                              ELSE Append(map, created),
                              filePath, opts)

\* AstProvider.convertNodesToFindings
convertNodesToFindings(nodes, filePath, opts) ==
    convertNodesFrom(nodes, 1, <<>>, filePath, opts)

(***************************************************************************)
(* AstProvider: the analysis of the syntax tree.  A statement is either a  *)
(* member expression object.property, given with its ancestors from the    *)
(* nearest (each with the role the child plays in it), or a variable       *)
(* declarator with an object pattern, given with its properties.           *)
(***************************************************************************)
StringLiteral(value) == [type |-> "StringLiteral", value |-> value]
Identifier(name) == [type |-> "Identifier", name |-> name]

analyzeUsageContextOrOnly(parents) ==
    LET or == parents # <<>> /\ parents[1].type = "LogicalExpression"
                /\ parents[1].operator = "||"
    IN  [hasGuards |-> or]
            @@ Opt(or /\ parents[1].right.type = "StringLiteral"
                      /\ Truthy(parents[1].right.value),
                   "defaultValue", IF or THEN parents[1].right.value ELSE "")

\* AstProvider.analyzeUsageContext
analyzeUsageContext(parents) ==
    IF parents = <<>> THEN [hasGuards |-> FALSE]
    ELSE LET logical(op) == parents[1].type = "LogicalExpression"
                                /\ parents[1].operator = op
             hasGuards ==
                \/ logical("||")
                \/ parents[1].type = "ConditionalExpression"
                \/ logical("??")
                \/ \E k \in 1..Len(parents) :
                        parents[k].type = "IfStatement" /\ parents[k].role = "test"
             captured == (logical("||") \/ logical("??"))
                            /\ parents[1].right.type = "StringLiteral"
         IN  [hasGuards |-> hasGuards]
                @@ Opt(captured /\ Truthy(parents[1].right.value), "defaultValue",
                       IF captured THEN parents[1].right.value ELSE "")

\* AstProvider.createEnvVarNode
createEnvVarNode(name, source, loc, context) ==
    [name |-> name, source |-> source,
     location |-> [start |-> [line |-> loc.line, column |-> loc.column]],
     hasGuards |-> context.hasGuards]
        @@ Opt(Has(context, "defaultValue") /\ Truthy(context.defaultValue), "defaultValue",
               IF Has(context, "defaultValue") THEN context.defaultValue ELSE "")

\* the name a property of process.env or import.meta.env gives, if any
propertyName(property) ==
    CASE property.type = "Identifier" -> <<property.name>>
      [] property.type = "StringLiteral" -> <<property.value>>
      [] OTHER -> <<>>

\* AstProvider.analyzeProcessEnvAccess: the node, or none
analyzeProcessEnvAccess(stmt) ==
    IF stmt.type = "MemberExpression" /\ stmt.object = "process.env"
            /\ propertyName(stmt.property) # <<>>
    THEN <<createEnvVarNode(propertyName(stmt.property)[1], "ast", stmt.loc,
                            analyzeUsageContext(stmt.parents))>>
    ELSE <<>>

\* AstProvider.analyzeImportMetaEnvAccess: the node, or none
analyzeImportMetaEnvAccess(stmt) ==
    IF stmt.type = "MemberExpression" /\ stmt.object = "import.meta.env"
            /\ propertyName(stmt.property) # <<>>
    THEN <<createEnvVarNode(propertyName(stmt.property)[1], "importmeta", stmt.loc,
                            analyzeUsageContext(stmt.parents))>>
    ELSE <<>>

\* analyzeDestructuring: the context of a key with a default clause
destructuredContext(prop) ==
    LET isString == prop.value.right.type = "StringLiteral"
        defaultValue == IF isString THEN prop.value.right.value ELSE ""
    IN  IF isString /\ Truthy(defaultValue)
        THEN [hasGuards |-> TRUE, defaultValue |-> defaultValue]
        ELSE [hasGuards |-> FALSE]

RECURSIVE destructuredFrom(_, _, _, _)
destructuredFrom(props, i, source, loc) ==
    IF i > Len(props) THEN <<>>
    ELSE LET prop == props[i]
             node ==
                IF prop.type = "ObjectProperty" /\ prop.value.type = "AssignmentPattern"
                        /\ prop.key.type = "Identifier"
                THEN <<createEnvVarNode(prop.key.name, source, loc, destructuredContext(prop))>>
                ELSE IF prop.type = "ObjectProperty" /\ prop.key.type = "Identifier"
                THEN <<createEnvVarNode(prop.key.name, source, loc, [hasGuards |-> FALSE])>>
                ELSE <<>>
         IN  node \o destructuredFrom(props, i + 1, source, loc)

\* AstProvider.analyzeDestructuring
analyzeDestructuring(stmt) ==
    IF stmt.type # "VariableDeclarator" \/ stmt.id.type # "ObjectPattern" THEN <<>>
    ELSE IF stmt.init = "process.env"
    THEN destructuredFrom(stmt.id.properties, 1, "ast", stmt.loc)
    ELSE IF stmt.init = "import.meta.env"
    THEN destructuredFrom(stmt.id.properties, 1, "importmeta", stmt.loc)
    ELSE <<>>

\* the visitors of extractEnvVariables on one statement
visit(stmt) ==
    IF stmt.type = "MemberExpression"
    THEN (IF analyzeProcessEnvAccess(stmt) # <<>> THEN analyzeProcessEnvAccess(stmt)
          ELSE analyzeImportMetaEnvAccess(stmt))
    ELSE analyzeDestructuring(stmt)

\* AstProvider.extractEnvVariables: the nodes pushed, in traversal order
RECURSIVE extractEnvVariables(_)
extractEnvVariables(stmts) ==
    IF stmts = <<>> THEN <<>> ELSE visit(Head(stmts)) \o extractEnvVariables(Tail(stmts))

(***************************************************************************)
(* ShellProvider.  The reference pattern is not modelled here: a line of a *)
(* script is given as what the two passes match on it, the name its        *)
(* assignment or declaration sets (pass 1) and the references that         *)
(* extractVariableReferences returns (pass 2).                             *)
(***************************************************************************)
builtins ==
    {"0", "1", "2", "3", "4", "5", "6", "7", "8", "9",
     "@", "*", "#", "?", "-", "$", "!", "_",
     "IFS", "PATH", "PS1", "PS2", "PS3", "PS4",
     "HOME", "USER", "SHELL", "PWD", "OLDPWD",
     "RANDOM", "SECONDS", "LINENO", "BASH_VERSION",
     "BASH_SOURCE", "BASH_LINENO", "FUNCNAME",
     "PIPESTATUS", "HOSTNAME", "HOSTTYPE", "OSTYPE",
     "MACHTYPE", "SHLVL", "PPID", "EUID", "UID", "GID",
     "i", "j", "k", "x", "y", "z", "item", "line", "file"}

isBuiltinVariable(name) == name \in builtins

assignedVarsNone(lines) == {}

\* pass 1 of scanContent: the names assigned or declared on any line
assignedVars(lines) ==
    {n \in UNION {lines[i].assigns : i \in 1..Len(lines)} : isValidEnvVarName(n)}

\* index in found (the values of foundVars, in insertion order); 0 when absent
foundIndex(found, name) ==
    IF \E k \in 1..Len(found) : found[k].name = name
    THEN CHOOSE k \in 1..Len(found) : found[k].name = name
    ELSE 0

\* pass 2 of scanContent, the references of one line from the r-th on
RECURSIVE shellRefsFrom(_, _, _, _, _, _, _)
shellRefsFrom(refs, r, found, lines, i, filePath, opts) ==
    IF r > Len(refs) THEN found
    ELSE LET varRef == refs[r]
             skip == \/ ~isValidEnvVarName(varRef.name)
                     \/ isBuiltinVariable(varRef.name)
                     \/ (varRef.name \in assignedVars(lines) /\ ~varRef.hasDefault)
             fileRef == createFileRef(filePath, i,
                                      varRef.endColumn - varRef.startColumn + 1,
                                      [context |-> lines[i].context])
             refDefault == Opt(Has(varRef, "defaultValue") /\ Truthy(varRef.defaultValue),
                               "defaultValue",
                               IF Has(varRef, "defaultValue") THEN varRef.defaultValue ELSE "")
             k == foundIndex(found, varRef.name)
             updated ==
                createFinding(varRef.name, "shell", found[k].files \o <<fileRef>>,
                    [required |-> found[k].required /\ ~varRef.hasDefault,
                     isPublic |-> isPublicVariable(varRef.name, opts.publicPrefixes)]
                        @@ refDefault)
             created ==
                createFinding(varRef.name, "shell", <<fileRef>>,
                    [required |-> ~varRef.hasDefault,
                     isPublic |-> isPublicVariable(varRef.name, opts.publicPrefixes)]
                        @@ refDefault)
         IN  shellRefsFrom(refs, r + 1,
                           IF skip THEN found
                           ELSE IF k > 0 THEN [found EXCEPT ![k] = updated]
                           ELSE Append(found, created),
                           lines, i, filePath, opts)

RECURSIVE shellLinesFrom(_, _, _, _, _)
shellLinesFrom(lines, i, found, filePath, opts) ==
    IF i > Len(lines) THEN found
    ELSE shellLinesFrom(lines, i + 1,
                        shellRefsFrom(lines[i].refs, 1, found, lines, i, filePath, opts),
                        filePath, opts)

\* ShellProvider.scanContent
scanContent(lines, filePath, opts) == shellLinesFrom(lines, 1, <<>>, filePath, opts)

(***************************************************************************)
(* ShellProvider: the patterns, applied to the text of a line.             *)
(***************************************************************************)
\* text.includesText(sub)
includesText(text, sub) ==
    \E k \in 1..(Len(text) - Len(sub) + 1) : SubSeq(text, k, k + Len(sub) - 1) = sub

\* text.startsWith(sub) for a longer sub
startsWithText(text, sub) ==
    Len(text) >= Len(sub) /\ SubSeq(text, 1, Len(sub)) = sub

\* text.split(sep, 2) for a two-character sep that occurs in text
splitTwo(text, sep) ==
    LET at(t) == CHOOSE k \in 1..(Len(t) - 1) :
                    /\ SubSeq(t, k, k + 1) = sep
                    /\ \A j \in 1..(k - 1) : SubSeq(t, j, j + 1) # sep
        after == SubSeq(text, at(text) + 2, Len(text))
    IN  <<SubSeq(text, 1, at(text) - 1),
          IF includesText(after, sep) THEN SubSeq(after, 1, at(after) - 1) ELSE after>>

\* the default after the operator, without its surrounding quotes
withoutQuotes(defaultValue) ==
    IF \/ (startsWith(defaultValue, "\"") /\ endsWith(defaultValue, "\""))
       \/ (startsWith(defaultValue, "'") /\ endsWith(defaultValue, "'"))
    THEN SubSeq(defaultValue, 2, Len(defaultValue) - 1)
    ELSE defaultValue

\* patterns.varRef tried at the p-th character of the line: NoFields when it
\* does not match there, else the length of the match and the group it caught
varRefAt(line, p) ==
    LET rest == SubSeq(line, p + 1, Len(line))
        inner == SubSeq(rest, 2, Len(rest))
        n == identifierPrefix(inner)
        closes == {c \in (n + 3)..Len(inner) : inner[c] = "}"}
        close == CHOOSE c \in closes : \A d \in closes : c <= d
    IN  IF line[p] # "$" THEN NoFields
        ELSE IF startsWith(rest, "{")
        THEN (IF n = 0 THEN NoFields
              ELSE IF Len(inner) > n /\ inner[n + 1] = "}"
              THEN [length |-> n + 3, braced |-> SubSeq(inner, 1, n)]
              ELSE IF Len(inner) >= n + 2 /\ inner[n + 1] = ":" /\ inner[n + 2] = "-"
                        /\ closes # {}
              THEN [length |-> close + 2, braced |-> SubSeq(inner, 1, close - 1)]
              ELSE NoFields)
        ELSE IF identifierPrefix(rest) > 0
        THEN [length |-> identifierPrefix(rest) + 1,
              simple |-> SubSeq(rest, 1, identifierPrefix(rest))]
        ELSE NoFields

\* the reference made of a match at the p-th character
referenceOf(match, p) ==
    LET columns == [startColumn |-> p, endColumn |-> p - 1 + match.length]
    IN  IF Has(match, "braced")
        THEN (IF includesText(match.braced, <<":", "-">>)
              THEN [name |-> Join(splitTwo(match.braced, <<":", "-">>)[1]), hasDefault |-> TRUE,
                    defaultValue |->
                        Join(withoutQuotes(splitTwo(match.braced, <<":", "-">>)[2]))] @@ columns
              ELSE IF includesText(match.braced, <<":", "=">>)
              THEN [name |-> Join(splitTwo(match.braced, <<":", "=">>)[1]), hasDefault |-> TRUE,
                    defaultValue |->
                        Join(withoutQuotes(splitTwo(match.braced, <<":", "=">>)[2]))] @@ columns
              ELSE [name |-> Join(match.braced), hasDefault |-> FALSE] @@ columns)
        ELSE [name |-> Join(match.simple), hasDefault |-> FALSE] @@ columns

RECURSIVE referencesFrom(_, _)
referencesFrom(line, p) ==
    IF p > Len(line) THEN <<>>
    ELSE IF varRefAt(line, p) = NoFields THEN referencesFrom(line, p + 1)
    ELSE <<referenceOf(varRefAt(line, p), p)>>
            \o referencesFrom(line, p + varRefAt(line, p).length)

\* ShellProvider.extractVariableReferences
extractVariableReferences(line) == referencesFrom(line, 1)

\* the name caught by /^([A-Za-z_][A-Za-z0-9_]*)\s*=/ , if any
nameBeforeEquals(text) ==
    LET n == identifierPrefix(text)
    IN  IF n > 0 /\ startsWith(trimStart(SubSeq(text, n + 1, Len(text))), "=")
        THEN {Join(SubSeq(text, 1, n))} ELSE {}

\* patterns.varAssign: /^(?:export\s+)?([A-Za-z_][A-Za-z0-9_]*)\s*=\s*(.*)$/
varAssign(trimmedLine) ==
    LET exported == startsWithText(trimmedLine, <<"e", "x", "p", "o", "r", "t", " ">>)
        afterExport == trimStart(SubSeq(trimmedLine, 7, Len(trimmedLine)))
    IN  IF exported /\ nameBeforeEquals(afterExport) # {}
        THEN nameBeforeEquals(afterExport)
        ELSE nameBeforeEquals(trimmedLine)

\* patterns.varDeclare:
\* /^(?:declare|local|readonly)\s+(?:-[a-zA-Z]+\s+)?([A-Za-z_][A-Za-z0-9_]*)/
varDeclare(trimmedLine) ==
    LET keywords == {<<"d", "e", "c", "l", "a", "r", "e">>, <<"l", "o", "c", "a", "l">>,
                     <<"r", "e", "a", "d", "o", "n", "l", "y">>}
        named(text) == IF identifierPrefix(text) > 0
                       THEN {Join(SubSeq(text, 1, identifierPrefix(text)))} ELSE {}
        letters(text) == CHOOSE n \in 0..Len(text) :
                            /\ \A k \in 1..n : text[k] \in UpperLetters \cup LowerLetters
                            /\ (n = Len(text) \/ text[n + 1] \notin UpperLetters \cup LowerLetters)
        afterFlag(text) ==
            LET flag == SubSeq(text, 2, Len(text))
                tail == SubSeq(flag, letters(flag) + 1, Len(flag))
            IN  IF startsWith(text, "-") /\ letters(flag) > 0 /\ startsWith(tail, " ")
                THEN named(trimStart(tail)) ELSE {}
        afterKeyword(w) ==
            LET tail == SubSeq(trimmedLine, Len(w) + 1, Len(trimmedLine))
            IN  IF startsWithText(trimmedLine, w) /\ startsWith(tail, " ")
                THEN (IF afterFlag(trimStart(tail)) # {} THEN afterFlag(trimStart(tail))
                      ELSE named(trimStart(tail)))
                ELSE {}
    IN  UNION {afterKeyword(w) : w \in keywords}

\* /^\w+\s*\(\s*\)/ : the text before the parenthesis, trimmed; <<>> when no match
functionName(contextLine) ==
    LET word(c) == c \in UpperLetters \cup LowerLetters \cup Digits \cup {"_"}
        n == CHOOSE m \in 0..Len(contextLine) :
                /\ \A k \in 1..m : word(contextLine[k])
                /\ (m = Len(contextLine) \/ ~word(contextLine[m + 1]))
        tail == trimStart(SubSeq(contextLine, n + 1, Len(contextLine)))
    IN  IF n > 0 /\ startsWith(tail, "(") /\ startsWith(trimStart(Tail(tail)), ")")
        THEN SubSeq(contextLine, 1, n) ELSE <<>>

\* ShellProvider.getContext
getContext(lines, currentLine) ==
    LET line == trim(lines[currentLine])
        near == {k \in 1..Len(lines) :
                    /\ currentLine - 5 <= k /\ k <= currentLine + 2
                    /\ functionName(trim(lines[k])) # <<>>}
        first == CHOOSE k \in near : \A j \in near : k <= j
    IN  IF startsWithText(line, <<"i", "f", " ">>) \/ includesText(line, <<" ", "i", "f", " ">>)
        THEN "Conditional statement"
        ELSE IF includesText(line, <<"=">>) /\ ~startsWith(line, "#")
        THEN "Variable assignment"
        ELSE IF startsWithText(line, <<"e", "c", "h", "o", " ">>)
                    \/ startsWithText(line, <<"p", "r", "i", "n", "t", "f", " ">>)
        THEN "Output command"
        ELSE IF startsWithText(line, <<"e", "x", "p", "o", "r", "t", " ">>)
        THEN "Environment export"
        ELSE IF near # {} THEN "Function: " \o Join(functionName(trim(lines[first])))
        ELSE "Shell script"

\* what the two passes of scanContent take from the i-th line of the text
shellLine(lines, i) ==
    LET trimmedLine == trim(lines[i])
    IN  IF trimmedLine = <<>> \/ startsWith(trimmedLine, "#")
        THEN [assigns |-> {}, context |-> "", refs |-> <<>>]
        ELSE [assigns |-> varAssign(trimmedLine) \cup varDeclare(trimmedLine),
              context |-> getContext(lines, i),
              refs |-> extractVariableReferences(lines[i])]

(***************************************************************************)
(* YamlProvider, compose files: one service whose environment is a list.   *)
(***************************************************************************)
\* YamlProvider.estimateLineNumber
estimateLineNumber(index) == IF index + 1 > 1 THEN index + 1 ELSE 1

\* YamlProvider.parseDockerEnvVar: /^([A-Za-z_][A-Za-z0-9_]*)(=(.*))?$/
parseDockerEnvVar(envVar) ==
    LET n == identifierPrefix(envVar)
        rest == SubSeq(envVar, n + 1, Len(envVar))
    IN  IF n = 0 \/ (rest # <<>> /\ rest[1] # "=") THEN NoFields
        ELSE IF ~isValidEnvVarName(Join(SubSeq(envVar, 1, n))) THEN NoFields
        ELSE [name |-> Join(SubSeq(envVar, 1, n)),
              hasDefault |-> Len(rest) > 1]
                @@ Opt(Len(rest) > 1, "defaultValue", Join(Tail(rest)))

\* YamlProvider.scanDockerService, array format, entries from the i-th on
RECURSIVE scanDockerServiceFrom(_, _, _, _, _)
scanDockerServiceFrom(environment, i, serviceName, filePath, opts) ==
    IF i > Len(environment) THEN <<>>
    ELSE LET parsed == parseDockerEnvVar(environment[i])
             fileRef == createFileRef(filePath, estimateLineNumber(i - 1), 1,
                                      [context |-> "Service: " \o serviceName])
             finding ==
                createFinding(parsed.name, "docker", <<fileRef>>,
                    [required |-> ~parsed.hasDefault,
                     isPublic |-> isPublicVariable(parsed.name, opts.publicPrefixes)]
                        @@ Opt(Has(parsed, "defaultValue") /\ Truthy(parsed.defaultValue),
                               "defaultValue",
                               IF Has(parsed, "defaultValue") THEN parsed.defaultValue ELSE ""))
         IN  (IF parsed = NoFields THEN <<>> ELSE <<finding>>)
                \o scanDockerServiceFrom(environment, i + 1, serviceName, filePath, opts)

scanDockerService(environment, serviceName, filePath, opts) ==
    scanDockerServiceFrom(environment, 1, serviceName, filePath, opts)

(***************************************************************************)
(* YamlProvider on a parsed document.  A mapping is the sequence of its    *)
(* entries [name, value] in document order (the order of Object.entries);  *)
(* a list is the sequence of its items [text]; a scalar is a record of its *)
(* type and of its value as written.                                       *)
(***************************************************************************)
YamlNull == [type |-> "null"]
YamlString(value) == [type |-> "string", value |-> value]
YamlNumber == [type |-> "number", value |-> "3000"]
YamlBoolean == [type |-> "boolean", value |-> "true"]

\* value && typeof value === 'string'
isNonEmptyString(value) == value.type = "string" /\ Truthy(value.value)

\* YamlProvider.scanDockerService, object format, entries from the i-th on
RECURSIVE scanDockerMappingFrom(_, _, _, _, _)
scanDockerMappingFrom(environment, i, serviceName, filePath, opts) ==
    IF i > Len(environment) THEN <<>>
    ELSE LET name == environment[i].name
             value == environment[i].value
             fileRef == createFileRef(filePath, estimateLineNumber(i - 1), 1,
                                      [context |-> "Service: " \o serviceName])
             finding ==
                createFinding(name, "docker", <<fileRef>>,
                    [required |-> value.type = "null",
                     isPublic |-> isPublicVariable(name, opts.publicPrefixes)]
                        @@ Opt(isNonEmptyString(value), "defaultValue",
                               IF isNonEmptyString(value) THEN value.value ELSE ""))
         IN  (IF isValidEnvVarName(name) THEN <<finding>> ELSE <<>>)
                \o scanDockerMappingFrom(environment, i + 1, serviceName, filePath, opts)

\* YamlProvider.scanDockerService on a service of the document
scanDockerServiceOf(service, filePath, opts) ==
    IF ~Has(service, "environment") THEN <<>>
    ELSE IF service.environment.format = "array"
    THEN scanDockerService([i \in 1..Len(service.environment.entries) |->
                                service.environment.entries[i].text],
                           service.name, filePath, opts)
    ELSE scanDockerMappingFrom(service.environment.entries, 1, service.name, filePath, opts)

\* YamlProvider.scanDockerCompose
RECURSIVE scanDockerComposeFrom(_, _, _, _)
scanDockerComposeFrom(services, i, filePath, opts) ==
    IF i > Len(services) THEN <<>>
    ELSE scanDockerServiceOf(services[i], filePath, opts)
            \o scanDockerComposeFrom(services, i + 1, filePath, opts)

scanDockerCompose(parsed, filePath, opts) ==
    IF Has(parsed, "services") THEN scanDockerComposeFrom(parsed.services, 1, filePath, opts)
    ELSE <<>>

\* Object.entries(env).forEach of scanGitHubActions and scanGitHubJob, entries
\* from the i-th on
RECURSIVE scanGitHubEnvFrom(_, _, _, _, _)
scanGitHubEnvFrom(env, i, context, filePath, opts) ==
    IF i > Len(env) THEN <<>>
    ELSE LET name == env[i].name
             value == env[i].value
             fileRef == createFileRef(filePath, estimateLineNumber(i - 1), 1,
                                      [context |-> context])
             finding ==
                createFinding(name, "gha", <<fileRef>>,
                    [required |-> FALSE,
                     isPublic |-> isPublicVariable(name, opts.publicPrefixes)]
                        @@ Opt(isNonEmptyString(value), "defaultValue",
                               IF isNonEmptyString(value) THEN value.value ELSE ""))
         IN  (IF isValidEnvVarName(name) THEN <<finding>> ELSE <<>>)
                \o scanGitHubEnvFrom(env, i + 1, context, filePath, opts)

\* `${stepIndex + 1}`
stepNumber == <<"1", "2", "3">>

\* job.steps.forEach of scanGitHubJob, steps from the i-th on
RECURSIVE scanGitHubStepsFrom(_, _, _, _, _)
scanGitHubStepsFrom(steps, i, jobName, filePath, opts) ==
    IF i > Len(steps) THEN <<>>
    ELSE (IF Has(steps[i], "env")
          THEN scanGitHubEnvFrom(steps[i].env, 1,
                                 "Job: " \o jobName \o ", Step: " \o stepNumber[i],
                                 filePath, opts)
          ELSE <<>>)
            \o scanGitHubStepsFrom(steps, i + 1, jobName, filePath, opts)

\* YamlProvider.scanGitHubJob
scanGitHubJob(job, jobName, filePath, opts) ==
    (IF Has(job, "env") THEN scanGitHubEnvFrom(job.env, 1, "Job: " \o jobName, filePath, opts)
     ELSE <<>>)
        \o (IF Has(job, "steps") THEN scanGitHubStepsFrom(job.steps, 1, jobName, filePath, opts)
            ELSE <<>>)

RECURSIVE scanGitHubJobsFrom(_, _, _, _)
scanGitHubJobsFrom(jobs, i, filePath, opts) ==
    IF i > Len(jobs) THEN <<>>
    ELSE scanGitHubJob(jobs[i], jobs[i].name, filePath, opts)
            \o scanGitHubJobsFrom(jobs, i + 1, filePath, opts)

\* YamlProvider.scanGitHubActions: the jobs, then the workflow-level env
scanGitHubActions(parsed, filePath, opts) ==
    (IF Has(parsed, "jobs") THEN scanGitHubJobsFrom(parsed.jobs, 1, filePath, opts)
     ELSE <<>>)
        \o (IF Has(parsed, "env")
            THEN scanGitHubEnvFrom(parsed.env, 1, "Workflow environment", filePath, opts)
            ELSE <<>>)

(***************************************************************************)
(* The scanned project.  `project` lists what is written in the files, in  *)
(* writing order: each entry names its file and carries one item of that   *)
(* file (an EnvVarNode, a dotenv line, a script line, a compose            *)
(* environment entry).  The k-th item of a file is on its line k.          *)
(***************************************************************************)
EnvFile == "/p/.env"
ComposeFile == "/p/docker-compose.yml"
ScriptFile == "/p/run.sh"
CodeFiles == {"/p/src/app.ts", "/p/src/db.ts"}

\* the files each provider keeps of the file list
EnvFiles == {EnvFile, "/p/.env.local"}
ComposeFiles == {ComposeFile, "/p/ops/compose.yaml"}
ScriptFiles == {ScriptFile, "/p/setup.sh"}

\* the file list handed to the providers (file discovery returns it sorted)
files ==
    <<EnvFile, "/p/.env.local", ComposeFile, "/p/ops/compose.yaml",
      ScriptFile, "/p/setup.sh", "/p/src/app.ts", "/p/src/db.ts">>

\* the items of one file, in order
RECURSIVE contentFrom(_, _, _)
contentFrom(proj, i, file) ==
    IF i > Len(proj) THEN <<>>
    ELSE (IF proj[i].file = file THEN <<proj[i].item>> ELSE <<>>)
            \o contentFrom(proj, i + 1, file)

content(proj, file) == contentFrom(proj, 1, file)

\* AstProvider.createEnvVarNode: the node of the k-th access of a file, which
\* starts its line (Babel columns are 0-based)
envNodes(proj, file) ==
    LET items == content(proj, file)
    IN  [k \in 1..Len(items) |->
            items[k] @@ [location |-> [start |-> [line |-> k, column |-> 0]]]]

\* DEFAULT_SCAN_OPTIONS.maxFileSize, in bytes
DefaultMaxFileSize == 1048576

\* options.maxFileSize ?? 1024 * 1024
maxFileSizeOf(opts) ==
    IF Has(opts, "maxFileSize") THEN opts.maxFileSize ELSE DefaultMaxFileSize

Null == [kind |-> "null"]
Text(items) == [kind |-> "text", text |-> items]

\* utils.readFileSafe: null when stat or read fails or the file is larger
\* than maxSize, else the content
readFileSafe(filePath, maxSize, proj, dsk) ==
    IF ~dsk[filePath].readable THEN Null
    ELSE IF dsk[filePath].size > maxSize THEN Null
    ELSE Text(content(proj, filePath))

\* fs.readFile(filePath, 'utf-8') as YamlProvider.scanFile calls it
readFile(filePath, proj, dsk) ==
    IF ~dsk[filePath].readable THEN Thrown("ENOENT")
    ELSE Text(content(proj, filePath))

\* !content
Falsy(c) == c.kind = "null" \/ c.text = <<>>

ParseError(message, filePath) ==
    [kind |-> "throw", name |-> "ParseError", message |-> message, filePath |-> filePath]

\* error instanceof ParseError
isParseError(error) == Has(error, "name") /\ error.name = "ParseError"

\* scanFile of each provider, for a file the provider handles; a file it
\* filters out gives nothing
scanFile(provider, filePath, proj, dsk, opts) ==
    CASE provider = "ast" /\ filePath \in CodeFiles ->
            LET c == readFileSafe(filePath, maxFileSizeOf(opts), proj, dsk)
            IN  IF Falsy(c) THEN Returned(<<>>)
                ELSE IF ~dsk[filePath].wellFormed
                THEN ParseError("Failed to parse file", filePath)
                ELSE Returned(convertNodesToFindings(envNodes(proj, filePath), filePath, opts))
      [] provider = "dotenv" /\ filePath \in EnvFiles ->
            LET c == readFileSafe(filePath, maxFileSizeOf(opts), proj, dsk)
            IN  IF Falsy(c) THEN Returned(<<>>)
                ELSE Returned(dotenvScanFile(c.text, filePath, opts))
      [] provider = "yaml" /\ filePath \in ComposeFiles ->
            LET c == readFile(filePath, proj, dsk)
            IN  IF c.kind = "throw" \/ ~dsk[filePath].wellFormed
                THEN Returned(<<>>)
                ELSE Returned(scanDockerService(c.text, "web", filePath, opts))
      [] provider = "shell" /\ filePath \in ScriptFiles ->
            LET c == readFileSafe(filePath, maxFileSizeOf(opts), proj, dsk)
            IN  IF Falsy(c) THEN Returned(<<>>)
                ELSE Returned(scanContent(c.text, filePath, opts))
      [] OTHER -> Returned(<<>>)

onFileErrorRethrow(provider, error, rest) == error

\* the catch of the file loop of provider.scan: the AstProvider goes on after
\* a ParseError and rethrows anything else, the others go on after any error
onFileError(provider, error, rest) ==
    IF provider = "ast" /\ ~isParseError(error) THEN error ELSE rest

\* provider.scan(files, options) of each provider: the files it handles, in
\* file-list order, each scanned on its own
RECURSIVE scanEach(_, _, _, _, _, _)
scanEach(provider, fileList, i, proj, dsk, opts) ==
    IF i > Len(fileList) THEN Returned(<<>>)
    ELSE LET out == scanFile(provider, fileList[i], proj, dsk, opts)
             rest == scanEach(provider, fileList, i + 1, proj, dsk, opts)
         IN  IF out.kind = "throw" THEN onFileError(provider, out, rest)
             ELSE IF rest.kind = "throw" THEN rest
             ELSE Returned(out.value \o rest.value)

providerScan(provider, proj, dsk, opts) == scanEach(provider, files, 1, proj, dsk, opts)

(***************************************************************************)
(* Scanner                                                                 *)
(***************************************************************************)
\* registerDefaultProviders: the keys of this.providers, in insertion order
providers == <<"ast", "dotenv", "yaml", "shell">>

includes(list, x) == \E k \in 1..Len(list) : list[k] = x

RECURSIVE filterProviders(_, _, _)
filterProviders(list, i, opts) ==
    IF i > Len(list) THEN <<>>
    ELSE (IF /\ (Has(opts, "includeProviders") /\ Len(opts.includeProviders) > 0
                    => includes(opts.includeProviders, list[i]))
             /\ (Has(opts, "excludeProviders") /\ Len(opts.excludeProviders) > 0
                    => ~includes(opts.excludeProviders, list[i]))
          THEN <<list[i]>> ELSE <<>>)
            \o filterProviders(list, i + 1, opts)

getEnabledProvidersIgnoringExclude(opts) ==
    filterProviders(providers, 1, [k \in DOMAIN opts \ {"excludeProviders"} |-> opts[k]])

\* Scanner.getEnabledProviders
getEnabledProviders(opts) == filterProviders(providers, 1, opts)

\* for (const findings of providerResults.values()) allFindings.push(...findings)
RECURSIVE collectAll(_, _)
collectAll(results, i) ==
    IF i > Len(results) THEN <<>>
    ELSE results[i].findings \o collectAll(results, i + 1)

\* the members of one group: the findings with that name, in list order
RECURSIVE membersFrom(_, _, _)
membersFrom(all, i, name) ==
    IF i > Len(all) THEN <<>>
    ELSE (IF all[i].name = name THEN <<all[i]>> ELSE <<>>) \o membersFrom(all, i + 1, name)

groupKeyWithSource(f) == <<f.name, f.source>>

\* the key of findingsByName
groupKey(f) == f.name

\* the groups of findingsByName, in insertion order of their keys
RECURSIVE groupsFrom(_, _)
groupsFrom(all, i) ==
    IF i > Len(all) THEN <<>>
    ELSE (IF \E j \in 1..(i - 1) : groupKey(all[j]) = groupKey(all[i]) THEN <<>>
          ELSE <<[j \in 1..Cardinality({m \in 1..Len(all) : groupKey(all[m]) = groupKey(all[i])}) |->
                    all[CHOOSE m \in 1..Len(all) :
                            /\ groupKey(all[m]) = groupKey(all[i])
                            /\ Cardinality({q \in 1..m : groupKey(all[q]) = groupKey(all[i])}) = j]]>>)
            \o groupsFrom(all, i + 1)

\* a.name.localeCompare(b.name) < 0 over the model's names
nameOrder == <<"DB_URL", "VITE_API">>

RECURSIVE sortByName(_, _)
sortByName(list, k) ==
    IF k > Len(nameOrder) THEN <<>>
    ELSE membersFrom(list, 1, nameOrder[k]) \o sortByName(list, k + 1)

\* Scanner.groupFindingsBySource
groupFindingsBySource(list) ==
    [s \in {sourceOrder[k] : k \in 1..Len(sourceOrder)} |->
        Cardinality({i \in 1..Len(list) : list[i].source = s})]

\* Scanner.mergeAndDeduplicateFindings -> Returned(list) or what mergeFindings threw
mergeAndDeduplicateFindings(results) ==
    LET groups == groupsFrom(collectAll(results, 1), 1)
        merged == [g \in 1..Len(groups) |->
                      IF Len(groups[g]) = 1 THEN Returned(groups[g][1])
                      ELSE mergeFindings(groups[g])]
    IN  IF \E g \in 1..Len(groups) : merged[g].kind = "throw"
        THEN merged[CHOOSE g \in 1..Len(groups) :
                        /\ merged[g].kind = "throw"
                        /\ \A h \in 1..(g - 1) : merged[h].kind # "throw"]
        ELSE Returned(sortByName([g \in 1..Len(groups) |-> merged[g].value], 1))

(***************************************************************************)
(* Spec: one scan of a bounded project.                                    *)
(***************************************************************************)
\* the name written in every form; the other names are written in the plain
\* form of each kind of file only
Varied == {"DB_URL"}

CodeNodes ==
    {[name |-> n, source |-> "ast", hasGuards |-> FALSE] : n \in Names}
    \cup {[name |-> n, source |-> "ast", hasGuards |-> TRUE] : n \in Varied}
    \cup {[name |-> n, source |-> "ast", hasGuards |-> TRUE, defaultValue |-> "a"] : n \in Varied}

DotenvValues ==
    {<<>>, <<"v">>, <<"'", "w", "'">>, <<"t", "b", "d">>, <<"v", " ", "#", " ", "n">>}
DotenvLines ==
    {Spell[n] \o <<"=">> \o v : n \in Varied, v \in DotenvValues}
    \cup {Spell[n] \o <<"=", "v">> : n \in Names}

\* echo $NAME, echo $NAME $NAME, echo ${NAME:-s} and NAME=${NAME:-s}
ScriptLines ==
    {[assigns |-> {}, context |-> "Output command",
      refs |-> <<[name |-> n, hasDefault |-> FALSE,
                  startColumn |-> 6, endColumn |-> 6 + Len(Spell[n])],
                 [name |-> n, hasDefault |-> FALSE,
                  startColumn |-> 8 + Len(Spell[n]),
                  endColumn |-> 8 + 2 * Len(Spell[n])]>>] : n \in Varied}
    \cup
    {[assigns |-> {}, context |-> "Output command",
      refs |-> <<[name |-> n, hasDefault |-> FALSE,
                  startColumn |-> 6, endColumn |-> 6 + Len(Spell[n])]>>] : n \in Names}
    \cup {[assigns |-> {}, context |-> "Output command",
           refs |-> <<[name |-> n, hasDefault |-> TRUE, defaultValue |-> "s",
                       startColumn |-> 6, endColumn |-> 11 + Len(Spell[n])]>>] : n \in Varied}
    \cup {[assigns |-> {n}, context |-> "Variable assignment",
           refs |-> <<[name |-> n, hasDefault |-> TRUE, defaultValue |-> "s",
                       startColumn |-> Len(Spell[n]) + 2,
                       endColumn |-> 2 * Len(Spell[n]) + 7]>>] : n \in Varied}

ComposeEntries == {Spell[n] : n \in Names} \cup {Spell[n] \o <<"=", "d">> : n \in Varied}

Occurrences ==
    {[file |-> "/p/src/app.ts", item |-> x] : x \in CodeNodes}
    \cup {[file |-> "/p/src/db.ts", item |-> x] : x \in {y \in CodeNodes : ~y.hasGuards}}
    \cup {[file |-> EnvFile, item |-> x] : x \in DotenvLines}
    \cup {[file |-> ScriptFile, item |-> x] : x \in ScriptLines}
    \cup {[file |-> ComposeFile, item |-> x] : x \in ComposeEntries}

Projects == UNION {[1..n -> Occurrences] : n \in 0..MaxOcc}

\* mergeOptions over DEFAULT_SCAN_OPTIONS, with the one public prefix VITE_
DefaultOptions ==
    [publicPrefixes |-> <<<<"V", "I", "T", "E", "_">>>>,
     maxFileSize |-> DefaultMaxFileSize,
     includeProviders |-> <<>>,
     excludeProviders |-> <<>>]

\* every file small, readable and well-formed
HealthyFile == [size |-> 100, readable |-> TRUE, wellFormed |-> TRUE]
HealthyDisk == [f \in {files[k] : k \in 1..Len(files)} |-> HealthyFile]

Init ==
    /\ findings = <<>>
    /\ outcome = Pending
    /\ project \in Projects
    /\ scanOptions = DefaultOptions
    /\ disk = HealthyDisk
    /\ rejecting = {}
    /\ providerPromises = NoFields
    /\ firstSettled = NoProvider
    /\ scanResult = Pending
    /\ statements = <<>>
    /\ extracted = Pending
    /\ fileContent = <<>>
    /\ fileFindings = Pending

Settled(p) == p \in DOMAIN providerPromises

wrappedNoCatch(scanned) == scanned

\* runProviders: the try/catch around provider.scan in the promise of one
\* provider; a rejection becomes the empty list
wrapped(scanned) ==
    IF scanned.kind = "throw" THEN Returned(<<>>) ELSE scanned

\* runProviders: the promise of one enabled provider settles
ProviderSettles(p) ==
    /\ scanResult = Pending
    /\ includes(getEnabledProviders(scanOptions), p)
    /\ ~Settled(p)
    /\ providerPromises' = providerPromises @@
            (p :> wrapped(IF p \in rejecting THEN Thrown("provider failed")
                          ELSE providerScan(p, project, disk, scanOptions)))
    /\ firstSettled' = IF firstSettled = NoProvider THEN p ELSE firstSettled
    /\ UNCHANGED <<findings, outcome, project, scanOptions, disk, rejecting, scanResult,
                   astVars, fileVars>>

RECURSIVE without(_, _)
without(list, x) ==
    IF list = <<>> THEN <<>>
    ELSE (IF Head(list) = x THEN <<>> ELSE <<Head(list)>>) \o without(Tail(list), x)

promiseAllFirstSettledFirst(enabled, promises, first) ==
    IF first = NoProvider THEN <<>>
    ELSE LET order == <<first>> \o without(enabled, first)
         IN  [k \in 1..Len(order) |->
                [name |-> order[k], findings |-> promises[order[k]].value]]

\* await Promise.all(providerPromises): the values of the promises in the
\* order of enabledProviders, whichever settled first; then results.set
promiseAll(enabled, promises, first) ==
    [k \in 1..Len(enabled) |->
        [name |-> enabled[k], findings |-> promises[enabled[k]].value]]

\* Promise.all resolves or rejects; scan merges, counts and returns, or
\* rethrows
CompleteScan ==
    /\ scanResult = Pending
    /\ \A k \in 1..Len(getEnabledProviders(scanOptions)) :
            Settled(getEnabledProviders(scanOptions)[k])
    /\ LET enabled == getEnabledProviders(scanOptions)
           rejected == {k \in 1..Len(enabled) : providerPromises[enabled[k]].kind = "throw"}
       IN  IF rejected # {}
           THEN scanResult' = providerPromises[enabled[CHOOSE k \in rejected :
                                                    \A h \in rejected : k <= h]]
           ELSE LET providerResults == promiseAll(enabled, providerPromises, firstSettled)
                    merged == mergeAndDeduplicateFindings(providerResults)
                IN  scanResult' =
                      IF merged.kind = "throw" THEN merged
                      ELSE Returned([findings |-> merged.value,
                                     stats |-> [totalFiles |-> Len(files),
                                                totalFindings |-> Len(merged.value),
                                                parseErrors |-> 0,
                                                variablesByProvider |->
                                                    groupFindingsBySource(merged.value)]])
    /\ UNCHANGED <<findings, outcome, project, scanOptions, disk, rejecting,
                   providerPromises, firstSettled, astVars, fileVars>>

Next ==
    \/ \E p \in {providers[k] : k \in 1..Len(providers)} : ProviderSettles(p)
    \/ CompleteScan

Spec == Init /\ [][Next]_vars

(***************************************************************************)
(* RunSpec: the scan of a few fixed projects under provider filters, with  *)
(* any set of providers rejecting.                                         *)
(***************************************************************************)
\* DB_URL written once in each kind of file, each time with its own default
EverywhereProject ==
    <<[file |-> "/p/src/app.ts",
       item |-> [name |-> "DB_URL", source |-> "ast", hasGuards |-> TRUE, defaultValue |-> "a"]],
      [file |-> EnvFile, item |-> Spell["DB_URL"] \o <<"=", "v", " ", "#", " ", "n">>],
      [file |-> ComposeFile, item |-> Spell["DB_URL"] \o <<"=", "d">>],
      [file |-> ScriptFile,
       item |-> [assigns |-> {}, context |-> "Output command",
                 refs |-> <<[name |-> "DB_URL", hasDefault |-> TRUE, defaultValue |-> "s",
                             startColumn |-> 6, endColumn |-> 17]>>]]>>

\* the same four entries, the script first and the code last
ReversedProject == [k \in 1..4 |-> EverywhereProject[5 - k]]

\* a name of its own in each kind of file
ApartProject ==
    <<[file |-> "/p/src/db.ts",
       item |-> [name |-> "VITE_API", source |-> "ast", hasGuards |-> FALSE]],
      [file |-> EnvFile, item |-> Spell["DB_URL"] \o <<"=">>],
      [file |-> ComposeFile, item |-> Spell["VITE_API"]],
      [file |-> ScriptFile,
       item |-> [assigns |-> {}, context |-> "Output command",
                 refs |-> <<[name |-> "DB_URL", hasDefault |-> FALSE,
                             startColumn |-> 6, endColumn |-> 12]>>]]>>

RunProjects == {EverywhereProject, ReversedProject, ApartProject}

\* includeProviders absent, empty, or naming providers (one of them not
\* registered); excludeProviders empty or naming providers
IncludeChoices ==
    {NoFields} \cup {("includeProviders" :> i) :
                        i \in {<<>>, <<"ast">>, <<"dotenv", "shell">>, <<"yaml", "k8s">>}}
ExcludeChoices == {<<>>, <<"shell">>, <<"ast", "yaml">>}
RunOptions ==
    {[publicPrefixes |-> DefaultOptions.publicPrefixes,
      maxFileSize |-> DefaultMaxFileSize,
      excludeProviders |-> e] @@ i : i \in IncludeChoices, e \in ExcludeChoices}

RunInit ==
    /\ findings = <<>>
    /\ outcome = Pending
    /\ project \in RunProjects
    /\ scanOptions \in RunOptions
    /\ disk = HealthyDisk
    /\ rejecting \in SUBSET {providers[k] : k \in 1..Len(providers)}
    /\ providerPromises = NoFields
    /\ firstSettled = NoProvider
    /\ scanResult = Pending
    /\ statements = <<>>
    /\ extracted = Pending
    /\ fileContent = <<>>
    /\ fileFindings = Pending

RunSpec == RunInit /\ [][Next]_vars

(***************************************************************************)
(* BatchSpec: the scan of projects that write in every file, over disks    *)
(* where up to MaxFaulty files are too large, unreadable or malformed.     *)
(***************************************************************************)
\* one entry per file: the first file of each kind mentions n1, the second n2
WriteAll(n1, n2) ==
    LET code(n) == [name |-> n, source |-> "ast", hasGuards |-> FALSE]
        echo(n) == [assigns |-> {}, context |-> "Output command",
                    refs |-> <<[name |-> n, hasDefault |-> FALSE,
                                startColumn |-> 6, endColumn |-> 6 + Len(Spell[n])]>>]
    IN  <<[file |-> EnvFile, item |-> Spell[n1] \o <<"=", "v">>],
          [file |-> "/p/.env.local", item |-> Spell[n2] \o <<"=", "w">>],
          [file |-> ComposeFile, item |-> Spell[n1] \o <<"=", "d">>],
          [file |-> "/p/ops/compose.yaml", item |-> Spell[n2]],
          [file |-> ScriptFile, item |-> echo(n1)],
          [file |-> "/p/setup.sh", item |-> echo(n2)],
          [file |-> "/p/src/app.ts", item |-> code(n1)],
          [file |-> "/p/src/db.ts", item |-> code(n2)]>>

BatchProjects == {WriteAll("DB_URL", "DB_URL"), WriteAll("DB_URL", "VITE_API")}

FileStates ==
    {HealthyFile,
     [size |-> 2000000, readable |-> TRUE, wellFormed |-> TRUE],
     [size |-> 100, readable |-> FALSE, wellFormed |-> TRUE],
     [size |-> 100, readable |-> TRUE, wellFormed |-> FALSE]}

Disks ==
    {d \in [DOMAIN HealthyDisk -> FileStates] :
        Cardinality({f \in DOMAIN d : d[f] # HealthyFile}) <= MaxFaulty}

\* the default ceiling of 1 MB, or a ceiling below the size of every file
BatchOptions == {DefaultOptions, [DefaultOptions EXCEPT !.maxFileSize = 50]}

BatchInit ==
    /\ findings = <<>>
    /\ outcome = Pending
    /\ project \in BatchProjects
    /\ scanOptions \in BatchOptions
    /\ disk \in Disks
    /\ rejecting = {}
    /\ providerPromises = NoFields
    /\ firstSettled = NoProvider
    /\ scanResult = Pending
    /\ statements = <<>>
    /\ extracted = Pending
    /\ fileContent = <<>>
    /\ fileFindings = Pending

BatchSpec == BatchInit /\ [][Next]_vars

(***************************************************************************)
(* AstSpec: AstProvider.scanFile on one source file, given by the          *)
(* statements its syntax tree holds, one per line.                         *)
(***************************************************************************)
MaxStmts == 2

NumericLiteral == [type |-> "NumericLiteral"]
CallExpression == [type |-> "CallExpression"]
Logical(operator, right, role) ==
    [type |-> "LogicalExpression", operator |-> operator, right |-> right, role |-> role]
Within(type, role) == [type |-> type, role |-> role]
Declared == Within("VariableDeclarator", "init")

\* object.property at a column of its line, under the given ancestors
Access(object, property, parents, column) ==
    [type |-> "MemberExpression", object |-> object, property |-> property,
     parents |-> parents, column |-> column]

\* const { properties } = init
Destructure(properties, init) ==
    [type |-> "VariableDeclarator", init |-> init, column |-> 6,
     id |-> [type |-> "ObjectPattern", properties |-> properties]]

Key(name) == [type |-> "ObjectProperty", key |-> Identifier(name), value |-> Identifier(name)]
KeyWithDefault(name, right) ==
    [type |-> "ObjectProperty", key |-> Identifier(name),
     value |-> [type |-> "AssignmentPattern", right |-> right]]

\* the ways the model's files read a variable in place
AccessStatements ==
    LET env == Identifier("DB_URL")
        use(parents) == Access("process.env", env, parents, 10)
    IN  { Access("process.env", env, <<Within("ExpressionStatement", "expression")>>, 0),
          use(<<Logical("||", StringLiteral("a"), "left"), Declared>>),
          use(<<Logical("||", StringLiteral("b"), "left"), Declared>>),
          use(<<Logical("||", NumericLiteral, "left"), Declared>>),
          use(<<Logical("||", StringLiteral(""), "left"), Declared>>),
          use(<<Logical("??", StringLiteral("a"), "left"), Declared>>),
          use(<<Logical("??", CallExpression, "left"), Declared>>),
          use(<<Logical("&&", StringLiteral("a"), "left"), Declared>>),
          Access("process.env", env,
                 <<Logical("||", [type |-> "MemberExpression"], "right"), Declared>>, 19),
          use(<<Within("ConditionalExpression", "test"), Declared>>),
          Access("process.env", env, <<Within("IfStatement", "test")>>, 4),
          Access("process.env", env,
                 <<Within("UnaryExpression", "argument"), Within("IfStatement", "test")>>, 5),
          Access("process.env", env,
                 <<Within("ExpressionStatement", "expression"), Within("BlockStatement", "body"),
                   Within("IfStatement", "consequent")>>, 2),
          use(<<Declared>>),
          Access("process.env", StringLiteral("DB_URL"), <<Declared>>, 10),
          Access("process.env", StringLiteral("my-var"), <<Declared>>, 10),
          Access("process.env", NumericLiteral, <<Declared>>, 10),
          Access("import.meta.env", Identifier("VITE_API"), <<Declared>>, 10),
          Access("import.meta.env", Identifier("VITE_API"),
                 <<Logical("||", StringLiteral("a"), "left"), Declared>>, 10),
          Access("import.meta.env", StringLiteral("VITE_API"),
                 <<Logical("??", NumericLiteral, "left"), Declared>>, 10),
          Access("config", env, <<Logical("||", StringLiteral("a"), "left"), Declared>>, 10) }

\* the declarators the model's files hold
DeclaratorStatements ==
    { Destructure(<<Key("DB_URL")>>, "process.env"),
      Destructure(<<KeyWithDefault("DB_URL", StringLiteral("a"))>>, "process.env"),
      Destructure(<<KeyWithDefault("DB_URL", NumericLiteral)>>, "process.env"),
      Destructure(<<KeyWithDefault("DB_URL", StringLiteral(""))>>, "process.env"),
      Destructure(<<KeyWithDefault("DB_URL", CallExpression)>>, "process.env"),
      Destructure(<<KeyWithDefault("DB_URL", StringLiteral("a")), Key("VITE_API")>>, "process.env"),
      Destructure(<<[type |-> "RestElement"]>>, "process.env"),
      Destructure(<<KeyWithDefault("VITE_API", StringLiteral("a"))>>, "import.meta.env"),
      Destructure(<<KeyWithDefault("VITE_API", NumericLiteral)>>, "import.meta.env"),
      Destructure(<<KeyWithDefault("DB_URL", StringLiteral("a"))>>, "config"),
      [type |-> "VariableDeclarator", init |-> "process.env", column |-> 6,
       id |-> Identifier("env")] }

StatementPool == AccessStatements \cup DeclaratorStatements

\* parseCode: the statement of line i is located there
parseCode(stmts) ==
    [i \in 1..Len(stmts) |->
        stmts[i] @@ [loc |-> [line |-> i, column |-> stmts[i].column]]]

AstInit ==
    /\ findings = <<>>
    /\ outcome = Pending
    /\ project = NoProject
    /\ scanOptions = DefaultOptions
    /\ disk = NoFields
    /\ rejecting = {}
    /\ providerPromises = NoFields
    /\ firstSettled = NoProvider
    /\ scanResult = Pending
    /\ \E n \in 1..MaxStmts : statements \in [1..n -> StatementPool]
    /\ extracted = Pending
    /\ fileContent = <<>>
    /\ fileFindings = Pending

\* AstProvider.scanFile on a file that reads and parses
AstScanFile ==
    /\ extracted = Pending
    /\ fileContent = <<>>
    /\ fileFindings = Pending
    /\ statements # <<>>
    /\ LET envNodesFound == extractEnvVariables(parseCode(statements))
       IN  extracted' = Returned([envNodes |-> envNodesFound,
                                  findings |-> convertNodesToFindings(envNodesFound,
                                                    "/p/src/app.ts", scanOptions)])
    /\ UNCHANGED <<findings, outcome, project, scanOptions, disk, rejecting,
                   providerPromises, firstSettled, scanResult, statements, fileVars>>

AstNext == AstScanFile

AstSpec == AstInit /\ [][AstNext]_vars

(***************************************************************************)
(* DotenvSpec: DotenvProvider.scanFile on a file of one line DB_URL=VALUE. *)
(***************************************************************************)
MaxValueLen == 5

ValueAlphabet == {"v", "'", "\"", "#", " "}

\* values that spell a word of the placeholder list, or nearly
WordValues ==
    {<<"T", "O", "D", "O">>, <<"t", "b", "d">>, <<"T", "b", "d">>, <<".", ".", ".">>,
     <<"'", "x", "x", "x", "'">>, <<"\"", "C", "h", "a", "n", "g", "e", "_", "M", "e", "\"">>,
     <<"t", "o", "d", "o", "s">>, <<" ", "t", "b", "d", " ", "#", " ", "v">>,
     <<"'", "t", "b", "d">>}

DotenvValuePool ==
    UNION {[1..n -> ValueAlphabet] : n \in 0..MaxValueLen} \cup WordValues

DotenvInit ==
    /\ findings = <<>>
    /\ outcome = Pending
    /\ project = NoProject
    /\ scanOptions = DefaultOptions
    /\ disk = NoFields
    /\ rejecting = {}
    /\ providerPromises = NoFields
    /\ firstSettled = NoProvider
    /\ scanResult = Pending
    /\ statements = <<>>
    /\ extracted = Pending
    /\ \E v \in DotenvValuePool : fileContent = <<Spell["DB_URL"] \o <<"=">> \o v>>
    /\ fileFindings = Pending

\* DotenvProvider.scanFile on a file that reads
DotenvScanFile ==
    /\ fileFindings = Pending
    /\ fileFindings' = Returned(dotenvScanFile(fileContent, EnvFile, scanOptions))
    /\ UNCHANGED <<findings, outcome, project, scanOptions, disk, rejecting,
                   providerPromises, firstSettled, scanResult, astVars, fileContent>>

DotenvNext == DotenvScanFile

DotenvSpec == DotenvInit /\ [][DotenvNext]_vars

(***************************************************************************)
(* ShellSpec: ShellProvider.scanFile on one script of a few lines.         *)
(***************************************************************************)
MaxLines == 2

ScriptTexts ==
    {<<"e", "c", "h", "o", " ", "$", "D", "B", "_", "U", "R", "L">>,   \* echo $DB_URL
     <<"e", "c", "h", "o", " ", "$", "{", "D", "B", "_", "U", "R", "L", "}">>,   \* echo ${DB_URL}
     <<"e", "c", "h", "o", " ", "$", "{", "D", "B", "_", "U", "R", "L", ":", "-", "s", "}">>,   \* echo ${DB_URL:-s}
     <<"e", "c", "h", "o", " ", "$", "{", "D", "B", "_", "U", "R", "L", ":", "-", "\"", "s", "\"", "}">>,   \* echo ${DB_URL:-"s"}
     <<"e", "c", "h", "o", " ", "$", "{", "D", "B", "_", "U", "R", "L", ":", "=", "s", "}">>,   \* echo ${DB_URL:=s}
     <<"D", "B", "_", "U", "R", "L", "=", "$", "{", "D", "B", "_", "U", "R", "L", ":", "-", "'", "t", "'", "}">>,   \* DB_URL=${DB_URL:-'t'}
     <<"D", "B", "_", "U", "R", "L", "=", "v">>,   \* DB_URL=v
     <<"e", "x", "p", "o", "r", "t", " ", "D", "B", "_", "U", "R", "L", "=", "v">>,   \* export DB_URL=v
     <<"l", "o", "c", "a", "l", " ", "D", "B", "_", "U", "R", "L">>,   \* local DB_URL
     <<"d", "e", "c", "l", "a", "r", "e", " ", "-", "x", " ", "D", "B", "_", "U", "R", "L">>,   \* declare -x DB_URL
     <<"e", "c", "h", "o", " ", "$", "P", "A", "T", "H">>,   \* echo $PATH
     <<"e", "c", "h", "o", " ", "$", "i">>,   \* echo $i
     <<"#", " ", "$", "D", "B", "_", "U", "R", "L">>,   \* # $DB_URL
     <<"e", "c", "h", "o", " ", "$", "{", "D", "B", "_", "U", "R", "L", ":", "-", "}">>,   \* echo ${DB_URL:-}
     <<"e", "c", "h", "o", " ", "$", "D", "B", "_", "U", "R", "L", " ", "$", "D", "B", "_", "U", "R", "L">>,   \* echo $DB_URL $DB_URL
     <<"e", "c", "h", "o", " ", "$", "{", "V", "I", "T", "E", "_", "A", "P", "I", ":", "-", "s", "}">>,   \* echo ${VITE_API:-s}
     <<"r", "u", "n", "(", ")", " ", "{">>,   \* run() {
     <<"i", "f", " ", "[", " ", "-", "z", " ", "\"", "$", "D", "B", "_", "U", "R", "L", "\"", " ", "]", ";", " ", "t", "h", "e", "n">>,   \* if [ -z "$DB_URL" ]; then
     <<"e", "c", "h", "o", " ", "$", "{", "P", "A", "T", "H", ":", "-", "s", "}">>}   \* echo ${PATH:-s}

ShellInit ==
    /\ findings = <<>>
    /\ outcome = Pending
    /\ project = NoProject
    /\ scanOptions = DefaultOptions
    /\ disk = NoFields
    /\ rejecting = {}
    /\ providerPromises = NoFields
    /\ firstSettled = NoProvider
    /\ scanResult = Pending
    /\ statements = <<>>
    /\ extracted = Pending
    /\ \E n \in 1..MaxLines : fileContent \in [1..n -> ScriptTexts]
    /\ fileFindings = Pending

\* ShellProvider.scanFile on a file that reads
ShellScanFile ==
    /\ fileFindings = Pending
    /\ fileFindings' =
            Returned(scanContent([i \in 1..Len(fileContent) |-> shellLine(fileContent, i)],
                                 ScriptFile, scanOptions))
    /\ UNCHANGED <<findings, outcome, project, scanOptions, disk, rejecting,
                   providerPromises, firstSettled, scanResult, astVars, fileContent>>

ShellNext == ShellScanFile

ShellSpec == ShellInit /\ [][ShellNext]_vars

(***************************************************************************)
(* YamlSpec: YamlProvider.scanFile on one compose file or one workflow     *)
(* file, then the scanner's merge of what it found.                        *)
(***************************************************************************)
MaxServices == 2
MaxJobs == 2

WorkflowFile == "/p/.github/workflows/ci.yml"

\* the environment of a service, in the list and in the mapping encoding
ListEntries ==
    {Spell["DB_URL"], Spell["DB_URL"] \o <<"=", "d">>, Spell["DB_URL"] \o <<"=">>,
     Spell["VITE_API"] \o <<"=", "d">>}
MappingValues == {YamlNull, YamlString("d"), YamlString(""), YamlNumber, YamlBoolean}
Entry(name, value) == [name |-> name, value |-> value]
Listed(text) == [text |-> text]
Environments ==
    {[format |-> "array", entries |-> <<Listed(e)>>] : e \in ListEntries}
    \cup {[format |-> "array", entries |-> <<Listed(Spell["VITE_API"]), Listed(e)>>] :
                e \in ListEntries}
    \cup {[format |-> "object", entries |-> <<Entry("DB_URL", v)>>] : v \in MappingValues}
    \cup {[format |-> "object", entries |-> <<Entry("VITE_API", YamlNull), Entry("DB_URL", v)>>] :
                v \in MappingValues}

serviceNames == <<"web", "db", "cache">>
ComposeDocuments ==
    UNION {{[services |-> [k \in 1..n |-> [name |-> serviceNames[k], environment |-> e[k]]]] :
                e \in [1..n -> Environments]} : n \in 1..MaxServices}

\* the env maps and the jobs of a workflow
EnvMap(value) == <<Entry("DB_URL", YamlString(value))>>
StepLists ==
    {<<>>, <<[env |-> EnvMap("s")]>>, <<[run |-> "make"], [env |-> EnvMap("s")]>>}
JobBodies ==
    {[steps |-> st] : st \in StepLists}
    \cup {[env |-> EnvMap("j"), steps |-> st] : st \in StepLists}
jobNames == <<"build", "test", "deploy">>
JobLists ==
    UNION {{[k \in 1..n |-> b[k] @@ [name |-> jobNames[k]]] : b \in [1..n -> JobBodies]} :
                n \in 1..MaxJobs}
WorkflowDocuments ==
    {[jobs |-> j] : j \in JobLists}
    \cup {[env |-> EnvMap("w"), jobs |-> j] : j \in JobLists}
    \cup {[env |-> <<Entry("VITE_API", YamlNull), Entry("DB_URL", YamlString("w"))>>, jobs |-> j] :
                j \in JobLists}

\* filename.includes('docker-compose') || filename.includes('compose')
isDockerCompose(filePath) == filePath \in ComposeFiles
\* filePath.includes('.github/workflows')
isGitHubActions(filePath) == filePath = WorkflowFile

\* YamlProvider.scanFile on a file that reads and parses to a mapping
yamlScanFile(filePath, parsed, opts) ==
    IF isDockerCompose(filePath) THEN scanDockerCompose(parsed, filePath, opts)
    ELSE IF isGitHubActions(filePath) THEN scanGitHubActions(parsed, filePath, opts)
    ELSE <<>>

YamlInit ==
    /\ findings = <<>>
    /\ outcome = Pending
    /\ project = NoProject
    /\ scanOptions = DefaultOptions
    /\ disk = NoFields
    /\ rejecting = {}
    /\ providerPromises = NoFields
    /\ firstSettled = NoProvider
    /\ scanResult = Pending
    /\ statements = <<>>
    /\ extracted = Pending
    /\ \/ \E d \in ComposeDocuments : fileContent = [filePath |-> ComposeFile, parsed |-> d]
       \/ \E d \in WorkflowDocuments : fileContent = [filePath |-> WorkflowFile, parsed |-> d]
       \/ \E d \in WorkflowDocuments : fileContent = [filePath |-> "/p/config.yml", parsed |-> d]
    /\ fileFindings = Pending

\* YamlProvider.scanFile
YamlScanFile ==
    /\ fileFindings = Pending
    /\ fileFindings' =
            Returned(yamlScanFile(fileContent.filePath, fileContent.parsed, scanOptions))
    /\ UNCHANGED <<findings, outcome, project, scanOptions, disk, rejecting,
                   providerPromises, firstSettled, scanResult, astVars, fileContent>>

\* Scanner.scan merges the findings of the providers, of which only the
\* YAML provider found any
YamlMerge ==
    /\ fileFindings # Pending
    /\ scanResult = Pending
    /\ scanResult' =
            mergeAndDeduplicateFindings(<<[name |-> "yaml", findings |-> fileFindings.value]>>)
    /\ UNCHANGED <<findings, outcome, project, scanOptions, disk, rejecting,
                   providerPromises, firstSettled, astVars, fileVars>>

YamlNext == YamlScanFile \/ YamlMerge

YamlSpec == YamlInit /\ [][YamlNext]_vars

(***************************************************************************)
(* Properties of mergeFindings, checked under MergeSpec.                   *)
(***************************************************************************)
Called == outcome # Pending
SameNamed == \A i \in 1..Len(findings) : findings[i].name = findings[1].name
PositionOf(r) == <<r.filePath, r.line, r.column>>
Positions(refs) == {PositionOf(refs[i]) : i \in 1..Len(refs)}
OnePerPosition(refs) ==
    \A i, j \in 1..Len(refs) : PositionOf(refs[i]) = PositionOf(refs[j]) => i = j

\* C1: for every non-empty list of Findings that share one name, the merged
\* Finding is required exactly when at least one member is required.
C1_RequiredIsAny ==
    (Called /\ Len(findings) >= 1 /\ SameNamed) =>
        /\ outcome.kind = "return"
        /\ outcome.value.required = (\E i \in 1..Len(findings) : findings[i].required)

C1_Witness ==
    /\ Called /\ Len(findings) = 2 /\ SameNamed
    /\ ~findings[1].required /\ findings[2].required
    /\ outcome.kind = "return" /\ outcome.value.required

\* C5 as stated: for every non-empty same-named list, the merged files hold
\* exactly one FileRef per distinct (filePath, line, column) of any member.
C5_OnePerPositionAnyGroup ==
    (Called /\ Len(findings) >= 1 /\ SameNamed) =>
        /\ outcome.kind = "return"
        /\ Positions(outcome.value.files) = Positions(allFiles(findings))
        /\ OnePerPosition(outcome.value.files)

\* C5 (amended): for a list of two or more same-named Findings, the merged
\* files hold exactly one FileRef per distinct (filePath, line, column) found
\* in any member's files, whatever the context text; no position is lost.
C5_OnePerPositionWhenFolded ==
    (Called /\ Len(findings) >= 2 /\ SameNamed) =>
        /\ outcome.kind = "return"
        /\ Positions(outcome.value.files) = Positions(allFiles(findings))
        /\ OnePerPosition(outcome.value.files)

C5_Witness ==
    /\ Called /\ Len(findings) = 2 /\ SameNamed
    /\ \E i \in 1..Len(findings[1].files), j \in 1..Len(findings[2].files) :
          /\ PositionOf(findings[1].files[i]) = PositionOf(findings[2].files[j])
          /\ findings[1].files[i] # findings[2].files[j]
    /\ Cardinality(Positions(allFiles(findings))) = 2
    /\ outcome.kind = "return" /\ Len(outcome.value.files) = 2

\* C6: for two or more same-named Findings the merged defaultValue is that of
\* the first member, in list order, whose defaultValue is non-empty, whatever
\* the sources; with no such member the merged Finding has no defaultValue.
C6_FirstNonEmptyDefault ==
    (Called /\ Len(findings) >= 2 /\ SameNamed) =>
        /\ outcome.kind = "return"
        /\ \A i \in 1..Len(findings) :
              (/\ Has(findings[i], "defaultValue") /\ findings[i].defaultValue # ""
               /\ \A j \in 1..(i - 1) :
                     ~Has(findings[j], "defaultValue") \/ findings[j].defaultValue = "")
              => (/\ Has(outcome.value, "defaultValue")
                  /\ outcome.value.defaultValue = findings[i].defaultValue)
        /\ (\A i \in 1..Len(findings) :
                ~Has(findings[i], "defaultValue") \/ findings[i].defaultValue = "")
              => ~Has(outcome.value, "defaultValue")

C6_Witness ==
    /\ Called /\ Len(findings) = 2 /\ SameNamed
    /\ findings[1].source = "gha" /\ findings[2].source = "ast"
    /\ Has(findings[1], "defaultValue") /\ findings[1].defaultValue = "w"
    /\ Has(findings[2], "defaultValue") /\ findings[2].defaultValue = "v"
    /\ outcome.kind = "return" /\ outcome.value.defaultValue = "w"

\* C7: for two or more same-named Findings the merged source is the members'
\* highest-priority tag in the order ast > process > importmeta > dotenv >
\* shell > docker > gha, and the first member's source when no member's tag
\* is in that order.
C7_SourceByPriority ==
    (Called /\ Len(findings) >= 2 /\ SameNamed) =>
        /\ outcome.kind = "return"
        /\ \A k \in 1..Len(sourceOrder) :
              (/\ \E i \in 1..Len(findings) : findings[i].source = sourceOrder[k]
               /\ \A m \in 1..(k - 1) :
                     \A i \in 1..Len(findings) : findings[i].source # sourceOrder[m])
              => outcome.value.source = sourceOrder[k]
        /\ (\A i \in 1..Len(findings) : findings[i].source \notin KnownSources)
              => outcome.value.source = findings[1].source

C7_Witness ==
    /\ Called /\ Len(findings) = 2 /\ SameNamed
    /\ findings[1].source = "gha" /\ findings[2].source = "shell"
    /\ outcome.kind = "return" /\ outcome.value.source = "shell"

\* C8: for every non-empty list of Findings that share one name, the merged
\* Finding is public exactly when at least one member is public.
C8_PublicIsAny ==
    (Called /\ Len(findings) >= 1 /\ SameNamed) =>
        /\ outcome.kind = "return"
        /\ outcome.value.isPublic = (\E i \in 1..Len(findings) : findings[i].isPublic)

C8_Witness ==
    /\ Called /\ Len(findings) = 2 /\ SameNamed
    /\ ~findings[1].isPublic /\ findings[2].isPublic
    /\ outcome.kind = "return" /\ outcome.value.isPublic

\* C9: mergeFindings of a one-element list returns that element unchanged:
\* same name, source, files, required, defaultValue, isPublic and notes.
C9_SingletonUnchanged ==
    (Called /\ Len(findings) = 1) =>
        /\ outcome.kind = "return"
        /\ outcome.value = findings[1]

C9_Witness ==
    /\ Called /\ Len(findings) = 1
    /\ Has(findings[1], "notes") /\ findings[1].notes = <<>>
    /\ outcome.kind = "return" /\ Has(outcome.value, "notes")

\* C10: mergeFindings of an empty list throws; it never returns a Finding.
C10_EmptyThrows ==
    (Called /\ Len(findings) = 0) => outcome.kind = "throw"

C10_Witness ==
    /\ Len(findings) = 0
    /\ outcome = Thrown("Cannot merge empty findings array")

(***************************************************************************)
(* Properties of Scanner.scan, checked under Spec.                         *)
(***************************************************************************)
ScanReturned == scanResult # Pending /\ scanResult.kind = "return"
ResultFindings == scanResult.value.findings
ResultFor(n) == {i \in 1..Len(ResultFindings) : ResultFindings[i].name = n}

\* the raw output of the providers that ran
RawNames ==
    UNION {{providerPromises[p].value[i].name : i \in 1..Len(providerPromises[p].value)} :
                p \in DOMAIN providerPromises}

\* what one entry of the project says about the variable n
IsCode(o) == o.file \in CodeFiles
IsDotenv(o) == o.file \in EnvFiles
IsScript(o) == o.file \in ScriptFiles
IsCompose(o) == o.file \in ComposeFiles

Mentions(o, n) ==
    \/ IsCode(o) /\ o.item.name = n
    \/ IsDotenv(o) /\ identifierPrefix(o.item) = Len(Spell[n])
                   /\ SubSeq(o.item, 1, Len(Spell[n])) = Spell[n]
    \/ IsCompose(o) /\ identifierPrefix(o.item) = Len(Spell[n])
                    /\ SubSeq(o.item, 1, Len(Spell[n])) = Spell[n]
    \/ IsScript(o) /\ (n \in o.item.assigns
                        \/ \E r \in 1..Len(o.item.refs) : o.item.refs[r].name = n)

\* an unguarded code access, or a reference or declaration without a default,
\* that the provider observes
Demands(o, n) ==
    \/ IsCode(o) /\ o.item.name = n /\ ~o.item.hasGuards
    \/ IsDotenv(o) /\ o.item \in {Spell[n] \o <<"=">>, Spell[n] \o <<"=", "t", "b", "d">>}
    \/ IsCompose(o) /\ o.item = Spell[n]
    \/ IsScript(o) /\ \A i \in 1..Len(project) :
                            IsScript(project[i]) => n \notin project[i].item.assigns
                   /\ \E r \in 1..Len(o.item.refs) :
                            o.item.refs[r].name = n /\ ~o.item.refs[r].hasDefault

\* C2: in the result of a scan, a variable's Finding is required whenever at
\* least one observed occurrence of it, in any file and from any provider,
\* demanded it, even if other occurrences are guarded or supply a default.
C2_RequiredIfAnyOccurrenceDemands ==
    ScanReturned =>
        \A n \in Names :
            (\E i \in 1..Len(project) : Demands(project[i], n)) =>
                \E k \in ResultFor(n) : ResultFindings[k].required

\* C3: the findings returned by a scan hold exactly one Finding for each
\* distinct variable name in the raw output of any enabled provider, and no
\* Finding for any other name.
C3_OneFindingPerName ==
    (scanResult # Pending) =>
        /\ scanResult.kind = "return"
        /\ {ResultFindings[i].name : i \in 1..Len(ResultFindings)} = RawNames
        /\ \A n \in RawNames : Cardinality(ResultFor(n)) = 1

C3_Witness ==
    /\ ScanReturned
    /\ Len(providerPromises["ast"].value) = 1
    /\ Len(providerPromises["dotenv"].value) = 1
    /\ providerPromises["ast"].value[1].name = providerPromises["dotenv"].value[1].name
    /\ Len(ResultFindings) = 1

\* a text of letters and digits
PlainText(t) ==
    t # <<>> /\ \A i \in 1..Len(t) : t[i] \in UpperLetters \cup LowerLetters \cup Digits

\* the line is NAME=v, v plain and maybe wrapped in one pair of quotes
DeclaresValue(line, n, v) ==
    \E q \in {<<>>, <<"'">>, <<"\"">>} : line = Spell[n] \o <<"=">> \o q \o v \o q

\* C4: when the only occurrences of X in a scan are one unguarded
\* process.env.X access in a code file and one .env line X=v with v a real
\* (non-empty, non-placeholder) value, the result holds exactly one Finding
\* named X, with exactly two FileRefs (one per file), required = true and
\* defaultValue = v.
C4_CodeAccessPlusDotenvValue ==
    ScanReturned =>
        \A n \in Names :
        \A c \in {i \in 1..Len(project) : IsCode(project[i])} :
        \A e \in {i \in 1..Len(project) : IsDotenv(project[i])} :
            \A a \in 1..Len(project[e].item), b \in 1..Len(project[e].item) :
                LET v == SubSeq(project[e].item, a, b)
                IN  (/\ project[c].item.name = n /\ ~project[c].item.hasGuards
                     /\ PlainText(v) /\ toUpperCase(v) \notin placeholders
                     /\ DeclaresValue(project[e].item, n, v)
                     /\ \A i \in 1..Len(project) : Mentions(project[i], n) => i \in {c, e})
                    => /\ Cardinality(ResultFor(n)) = 1
                       /\ \A k \in ResultFor(n) :
                            /\ Len(ResultFindings[k].files) = 2
                            /\ {ResultFindings[k].files[j].filePath : j \in 1..2}
                                    = {project[c].file, project[e].file}
                            /\ ResultFindings[k].required
                            /\ Has(ResultFindings[k], "defaultValue")
                            /\ ResultFindings[k].defaultValue = Join(v)

C4_Witness ==
    /\ ScanReturned
    /\ Len(project) = 2
    /\ IsCode(project[1]) /\ project[1].item.name = "DB_URL" /\ ~project[1].item.hasGuards
    /\ IsDotenv(project[2]) /\ DeclaresValue(project[2].item, "DB_URL", <<"w">>)
    /\ Len(ResultFindings) = 1
    /\ Len(ResultFindings[1].files) = 2
    /\ ResultFindings[1].required
    /\ ResultFindings[1].defaultValue = "w"

(***************************************************************************)
(* Properties of Scanner.runProviders and the provider filters, checked    *)
(* under RunSpec.                                                          *)
(***************************************************************************)
Enabled == getEnabledProviders(scanOptions)
EnabledSet == {Enabled[k] : k \in 1..Len(Enabled)}

RECURSIVE Keep(_, _)
Keep(list, S) ==
    IF list = <<>> THEN <<>>
    ELSE (IF Head(list) \in S THEN <<Head(list)>> ELSE <<>>) \o Keep(Tail(list), S)

\* the merge of what the given providers find in the project, taken in the
\* order of the list
MergeOfScans(list) ==
    mergeAndDeduplicateFindings(
        [k \in 1..Len(list) |->
            [name |-> list[k],
             findings |-> providerScan(list[k], project, disk, scanOptions).value]])

\* C11: if the scan of an enabled provider throws or rejects, Scanner.scan
\* does not throw: that provider contributes the empty list and the result is
\* the merge of what the remaining providers found; when every enabled
\* provider fails the scan still returns a result, with no findings.
C11_ProviderFailureIsolated ==
    (scanResult # Pending) =>
        /\ scanResult.kind = "return"
        /\ \A p \in rejecting \cap EnabledSet : providerPromises[p] = Returned(<<>>)
        /\ Returned(ResultFindings) = MergeOfScans(Keep(Enabled, EnabledSet \ rejecting))
        /\ (EnabledSet \subseteq rejecting => ResultFindings = <<>>)

C11_Witness ==
    /\ ScanReturned
    /\ project = EverywhereProject
    /\ EnabledSet = {"ast", "dotenv", "yaml", "shell"}
    /\ rejecting = {"ast", "yaml"}
    /\ Len(ResultFindings) = 1
    /\ ResultFindings[1].source = "dotenv"
    /\ Len(ResultFindings[1].files) = 2

C11_WitnessAllFail ==
    /\ ScanReturned
    /\ Len(Enabled) = 4
    /\ rejecting = EnabledSet
    /\ ResultFindings = <<>>

\* the providers that ran, in registration order, with what their promises
\* settled with
RanInRegistrationOrder ==
    LET ran == Keep(providers, DOMAIN providerPromises)
    IN  [k \in 1..Len(ran) |-> [name |-> ran[k], findings |-> providerPromises[ran[k]].value]]

\* C13: the findings of a scan are the same for every completion order of the
\* concurrently running providers: the raw findings are concatenated in
\* provider-registration order (ast, dotenv, yaml, shell) before grouping, so
\* the merged defaultValue, notes and source do not depend on which provider
\* finishes first.
C13_CompletionOrderIrrelevant ==
    ScanReturned =>
        Returned(ResultFindings) = mergeAndDeduplicateFindings(RanInRegistrationOrder)

C13_Witness ==
    /\ ScanReturned
    /\ project = EverywhereProject
    /\ Len(Enabled) = 4
    /\ rejecting = {}
    /\ firstSettled = "shell"
    /\ Len(ResultFindings) = 1
    /\ ResultFindings[1].source = "ast"
    /\ ResultFindings[1].defaultValue = "a"
    /\ ResultFindings[1].notes = <<"n">>
    /\ Len(ResultFindings[1].files) = 4

(***************************************************************************)
(* Properties of the providers' file loops, checked under BatchSpec.       *)
(***************************************************************************)
\* the files a provider keeps of the file list
Handles(p) ==
    CASE p = "ast" -> CodeFiles
      [] p = "dotenv" -> EnvFiles
      [] p = "yaml" -> ComposeFiles
      [] p = "shell" -> ScriptFiles

\* the provider fails on the file: it cannot read it, or cannot parse it
FailsOn(p, f) ==
    \/ ~disk[f].readable
    \/ p \in {"ast", "yaml"} /\ ~disk[f].wellFormed

RECURSIVE FindingsOfEach(_, _)
FindingsOfEach(p, fileList) ==
    IF fileList = <<>> THEN <<>>
    ELSE scanFile(p, Head(fileList), project, disk, scanOptions).value
            \o FindingsOfEach(p, Tail(fileList))

\* C12: for each of the four providers, a failure while processing one file
\* of the batch (unreadable or unparsable content) never aborts the batch:
\* the provider's scan returns the findings of every other file it handles,
\* in file-list order.
C12_FileFailureKeepsBatch ==
    \A p \in DOMAIN providerPromises :
        providerPromises[p] =
            Returned(FindingsOfEach(p, Keep(files, {f \in Handles(p) : ~FailsOn(p, f)})))

C12_Witness ==
    /\ \A p \in {"ast", "dotenv", "yaml", "shell"} : Settled(p)
    /\ scanOptions = DefaultOptions
    /\ ~disk["/p/src/app.ts"].wellFormed
    /\ Len(providerPromises["ast"].value) = 1
    /\ providerPromises["ast"].value[1].files[1].filePath = "/p/src/db.ts"
    /\ Len(providerPromises["yaml"].value) = 2
    /\ Len(providerPromises["dotenv"].value) = 2

\* C15: no provider reads the content of a file whose size exceeds
\* options.maxFileSize: such a file is treated as absent, contributing no
\* findings and raising no error, also when the file list is passed to the
\* scan directly.
C15_OversizeFilesNeverRead ==
    /\ (scanResult # Pending) => scanResult.kind = "return"
    /\ \A p \in DOMAIN providerPromises :
            \A i \in 1..Len(providerPromises[p].value) :
                \A j \in 1..Len(providerPromises[p].value[i].files) :
                    disk[providerPromises[p].value[i].files[j].filePath].size
                        <= maxFileSizeOf(scanOptions)

(***************************************************************************)
(* Properties of the provider filters, checked under RunSpec.              *)
(***************************************************************************)
ListedIn(opts, key) ==
    IF Has(opts, key) THEN {opts[key][k] : k \in 1..Len(opts[key])} ELSE {}

\* the registered providers the options let run
Allowed ==
    {p \in {"ast", "dotenv", "yaml", "shell"} :
        /\ (ListedIn(scanOptions, "includeProviders") = {}
                \/ p \in ListedIn(scanOptions, "includeProviders"))
        /\ p \notin ListedIn(scanOptions, "excludeProviders")}

\* C14: Scanner.scan runs exactly the registered providers whose name is in
\* includeProviders (all of them when includeProviders is empty or absent)
\* minus those named in excludeProviders; a provider that is filtered out
\* contributes no finding and no FileRef to the result.
C14_ProviderFilters ==
    /\ DOMAIN providerPromises \subseteq Allowed
    /\ (scanResult # Pending) => DOMAIN providerPromises = Allowed
    /\ ScanReturned =>
            \A i \in 1..Len(ResultFindings) :
                \A j \in 1..Len(ResultFindings[i].files) :
                    \E p \in Allowed : ResultFindings[i].files[j].filePath \in Handles(p)

C14_Witness ==
    /\ ScanReturned
    /\ project = EverywhereProject
    /\ rejecting = {}
    /\ Has(scanOptions, "includeProviders")
    /\ scanOptions.includeProviders = <<"dotenv", "shell">>
    /\ scanOptions.excludeProviders = <<"shell">>
    /\ DOMAIN providerPromises = {"dotenv"}
    /\ Len(ResultFindings) = 1
    /\ Len(ResultFindings[1].files) = 1
    /\ ResultFindings[1].files[1].filePath = EnvFile

\* the FileRefs appear once each, by (filePath, line, column)
Deduplicated(refs) ==
    \A i, j \in 1..Len(refs) : SamePosition(refs[i], refs[j]) => i = j

\* C17: in every Finding of a scan result, the Finding that passed the merge
\* as a group of one included, no two FileRefs share (filePath, line, column).
C17_FilesDeduplicated ==
    ScanReturned =>
        \A k \in 1..Len(ResultFindings) : Deduplicated(ResultFindings[k].files)

\* C18: every FileRef a provider emits has line >= 1 and column >= 1.
C18_OneBasedPositions ==
    \A p \in DOMAIN providerPromises :
        \A i \in 1..Len(providerPromises[p].value) :
            LET refs == providerPromises[p].value[i].files
            IN  \A k \in 1..Len(refs) : refs[k].line >= 1 /\ refs[k].column >= 1

(***************************************************************************)
(* Properties of AstSpec                                                   *)
(***************************************************************************)
AstScanned == extracted.kind = "return"
AstNodes == extracted.value.envNodes
AstFindings == extracted.value.findings

\* the nodes the statement of line i gave
NodesAt(i) == { k \in 1..Len(AstNodes) : AstNodes[k].location.start.line = i }

\* the Finding the file's scan holds for a node
FindingOf(node) ==
    { k \in 1..Len(AstFindings) :
        AstFindings[k].name = node.name /\ AstFindings[k].source = node.source }

ReadsEnv(stmt) ==
    /\ stmt.type = "MemberExpression"
    /\ stmt.object \in {"process.env", "import.meta.env"}
    /\ stmt.property.type \in {"Identifier", "StringLiteral"}

\* C16: every Finding the AST provider emits has a name matching
\* ^[A-Za-z_][A-Za-z0-9_]*$, names taken from a bracket subscript with a
\* literal string key and from destructured keys included.
C16_NamesMatchGrammar ==
    AstScanned =>
        \A k \in 1..Len(AstFindings) : isValidEnvVarName(AstFindings[k].name)

IsGuardedOperand(stmt) ==
    /\ ReadsEnv(stmt)
    /\ stmt.parents[1].type = "LogicalExpression"
    /\ stmt.parents[1].operator \in {"||", "??"}

\* C19: an access of process.env / import.meta.env that is an operand of ||
\* or ?? gives a guarded node, and the Finding of its variable has required =
\* FALSE; the node carries a defaultValue only when the right operand is a
\* string literal, and then that literal.
C19_OperandIsGuarded ==
    AstScanned =>
        \A i \in 1..Len(statements) :
            IsGuardedOperand(statements[i]) =>
                /\ NodesAt(i) # {}
                /\ \A k \in NodesAt(i) :
                    LET node == AstNodes[k]
                        right == statements[i].parents[1].right
                    IN  /\ node.hasGuards
                        /\ FindingOf(node) # {}
                        /\ \A j \in FindingOf(node) : ~AstFindings[j].required
                        /\ Has(node, "defaultValue") =>
                                right.type = "StringLiteral" /\ node.defaultValue = right.value

\* a file whose only statement is  process.env.DB_URL || 3000  was scanned:
\* one Finding, not required, without a default
C19_Witness ==
    /\ AstScanned
    /\ Len(statements) = 1
    /\ IsGuardedOperand(statements[1])
    /\ statements[1].parents[1].operator = "||"
    /\ statements[1].parents[1].right.type = "NumericLiteral"
    /\ Len(AstFindings) = 1
    /\ ~AstFindings[1].required
    /\ ~Has(AstFindings[1], "defaultValue")

\* a file whose only statement is  process.env.DB_URL ?? 'a'  was scanned
C19_WitnessNullish ==
    /\ AstScanned
    /\ Len(statements) = 1
    /\ IsGuardedOperand(statements[1])
    /\ statements[1].parents[1].operator = "??"
    /\ Len(AstFindings) = 1
    /\ ~AstFindings[1].required
    /\ Has(AstFindings[1], "defaultValue") /\ AstFindings[1].defaultValue = "a"

DestructuresEnv(stmt) ==
    /\ stmt.type = "VariableDeclarator"
    /\ stmt.id.type = "ObjectPattern"
    /\ stmt.init \in {"process.env", "import.meta.env"}

HasDefaultClause(prop) ==
    prop.type = "ObjectProperty" /\ prop.value.type = "AssignmentPattern"

\* C20: in a destructuring of process.env or import.meta.env, every key with
\* a default clause gives a guarded node, whatever the kind of the default,
\* and the Finding of its variable has required = FALSE; the node carries a
\* defaultValue only when the default is a string literal.
C20_DefaultClauseIsGuard ==
    AstScanned =>
        \A i \in 1..Len(statements) :
            DestructuresEnv(statements[i]) =>
                \A p \in 1..Len(statements[i].id.properties) :
                    LET prop == statements[i].id.properties[p]
                    IN  HasDefaultClause(prop) =>
                            \E k \in NodesAt(i) :
                                /\ AstNodes[k].name = prop.key.name
                                /\ AstNodes[k].hasGuards
                                /\ \A j \in FindingOf(AstNodes[k]) : ~AstFindings[j].required
                                /\ Has(AstNodes[k], "defaultValue") =>
                                        prop.value.right.type = "StringLiteral"

(***************************************************************************)
(* Properties of DotenvSpec                                                *)
(***************************************************************************)
FileScanned == fileFindings.kind = "return"
FileFindings == fileFindings.value

\* what follows NAME= on the one line of the file
WrittenValue == SubSeq(fileContent[1], Len(Spell["DB_URL"]) + 2, Len(fileContent[1]))

IsQuote(c) == c \in {"'", "\""}

\* the text without one pair of matching surrounding quotes
StripPair(text) ==
    IF Len(text) >= 2 /\ IsQuote(text[1]) /\ text[Len(text)] = text[1]
    THEN SubSeq(text, 2, Len(text) - 1)
    ELSE text

PlaceholderVocabulary ==
    {<<"Y", "O", "U", "R", "_", "V", "A", "L", "U", "E", "_", "H", "E", "R", "E">>,
     <<"C", "H", "A", "N", "G", "E", "_", "M", "E">>,
     <<"R", "E", "P", "L", "A", "C", "E", "_", "M", "E">>,
     <<"T", "O", "D", "O">>, <<"T", "B", "D">>, <<".", ".", ".">>, <<"X", "X", "X">>}

NoRealDefault(text) == text = <<>> \/ toUpperCase(text) \in PlaceholderVocabulary

\* the one Finding is as the value says
FindingSays(value) ==
    /\ Len(FileFindings) = 1
    /\ FileFindings[1].name = "DB_URL"
    /\ IF NoRealDefault(StripPair(trim(value)))
       THEN FileFindings[1].required /\ ~Has(FileFindings[1], "defaultValue")
       ELSE /\ ~FileFindings[1].required
            /\ Has(FileFindings[1], "defaultValue")
            /\ FileFindings[1].defaultValue = Join(StripPair(trim(value)))

\* C21: for a dotenv line NAME=VALUE without a comment sign, the Finding is
\* required and has no defaultValue when VALUE, trimmed and without one pair
\* of matching surrounding quotes, is empty or a placeholder word in any
\* case; otherwise it is not required and defaultValue is that stripped value.
C21_PlaceholderOrDefault ==
    (FileScanned /\ indexOf(WrittenValue, "#") = -1) => FindingSays(WrittenValue)

\* the places of the line, 0-based, where a comment sign stands with an even
\* number of single quotes and of double quotes before it
CommentStarts(line) ==
    {h \in 1..(Len(line) - 1) :
        /\ line[h + 1] = "#"
        /\ countOf(SubSeq(line, 1, h), "'") % 2 = 0
        /\ countOf(SubSeq(line, 1, h), "\"") % 2 = 0}

FirstCommentStart(line) ==
    CHOOSE h \in CommentStarts(line) : \A g \in CommentStarts(line) : h <= g

\* the required flag and the default of the Finding made of a line
ValueOf(f) == [required |-> f.required] @@ Opt(Has(f, "defaultValue"), "defaultValue",
                    IF Has(f, "defaultValue") THEN f.defaultValue ELSE "")

\* C22: in a dotenv line a comment sign starts a trailing comment exactly
\* when the numbers of single and of double quotes before it are both even:
\* the Finding then has the required flag and the default of the line cut
\* before the first such sign, and its notes hold the comment's text when it
\* is not empty; a line whose comment signs all stand inside a quote run
\* keeps them in the value and gives no note.
C22_CommentOutsideQuotes ==
    (FileScanned /\ indexOf(fileContent[1], "#") # -1) =>
        LET line == fileContent[1]
        IN  IF CommentStarts(line) = {}
            THEN FindingSays(WrittenValue) /\ ~Has(FileFindings[1], "notes")
            ELSE LET h == FirstCommentStart(line)
                     text == trim(SubSeq(line, h + 2, Len(line)))
                     cut == dotenvScanFile(<<SubSeq(line, 1, h)>>, EnvFile, scanOptions)
                 IN  /\ Len(FileFindings) = 1 /\ Len(cut) = 1
                     /\ ValueOf(FileFindings[1]) = ValueOf(cut[1])
                     /\ IF text = <<>> THEN ~Has(FileFindings[1], "notes")
                        ELSE Has(FileFindings[1], "notes")
                                /\ FileFindings[1].notes = <<Join(text)>>

(***************************************************************************)
(* Properties of ShellSpec                                                 *)
(***************************************************************************)
\* the Findings of the scanned file that are named n
NamedIn(n) == {k \in 1..Len(FileFindings) : FileFindings[k].name = n}

\* the line holds the text at its k-th character
HoldsAt(line, k, text) ==
    k + Len(text) - 1 <= Len(line) /\ SubSeq(line, k, k + Len(text) - 1) = text

\* the line holds ${n op d}
BracedDefault(line, n, op, d) ==
    \E k \in 1..Len(line) : HoldsAt(line, k, <<"$", "{">> \o Spell[n] \o op \o d \o <<"}">>)

DefaultOperators == {<<":", "-">>, <<":", "=">>}
DefaultTexts == {<<"s">>, <<"\"", "s", "\"">>, <<"'", "t", "'">>}
ScriptNames == {"DB_URL", "VITE_API"}

\* C23: a reference ${NAME:-default} or ${NAME:=default} gives the file a
\* Finding for NAME with required = FALSE, and, when it is the file's only
\* line, with defaultValue the default without one layer of matching
\* surrounding quotes.
C23_BracedDefaults ==
    FileScanned =>
        \A i \in 1..Len(fileContent) : \A n \in ScriptNames :
            \A op \in DefaultOperators : \A d \in DefaultTexts :
                BracedDefault(fileContent[i], n, op, d) =>
                    /\ NamedIn(n) # {}
                    /\ \A k \in NamedIn(n) :
                        /\ ~FileFindings[k].required
                        /\ Len(fileContent) = 1 =>
                                /\ Has(FileFindings[k], "defaultValue")
                                /\ FileFindings[k].defaultValue = Join(StripPair(d))

IsNameChar(c) == c \in UpperLetters \cup LowerLetters \cup Digits \cup {"_"}

\* the places of the line where $n or ${n} stands
PlainRefsAt(line, n) ==
    {k \in 1..Len(line) :
        \/ /\ HoldsAt(line, k, <<"$">> \o Spell[n])
           /\ (k + Len(Spell[n]) = Len(line) \/ ~IsNameChar(line[k + Len(Spell[n]) + 1]))
        \/ HoldsAt(line, k, <<"$", "{">> \o Spell[n] \o <<"}">>)}

\* the places of the line where ${n:-...} stands
DefaultRefsAt(line, n) ==
    {k \in 1..Len(line) :
        /\ HoldsAt(line, k, <<"$", "{">> \o Spell[n] \o <<":", "-">>)
        /\ \E c \in (k + 1)..Len(line) : line[c] = "}"}

IsCommentLine(line) == startsWith(trim(line), "#")

\* the line assigns or declares n
AssignsOn(line, n) ==
    \/ \E w \in {<<>>, <<"e", "x", "p", "o", "r", "t", " ">>} :
            HoldsAt(trim(line), 1, w \o Spell[n] \o <<"=">>)
    \/ \E u \in {<<"l", "o", "c", "a", "l", " ">>,
                  <<"d", "e", "c", "l", "a", "r", "e", " ", "-", "x", " ">>} :
            HoldsAt(trim(line), 1, u \o Spell[n])

AssignedInFile(n) == \E i \in 1..Len(fileContent) : AssignsOn(fileContent[i], n)

\* the FileRefs the file's Findings hold for n on line i
RefsKept(n, i) ==
    UNION {{<<k, r>> : r \in {x \in 1..Len(FileFindings[k].files) :
                                    FileFindings[k].files[x].line = i}} : k \in NamedIn(n)}

\* C24: a reference to a name of the builtin denylist gives nothing; a
\* reference without default to a name assigned or declared on any line of
\* the file gives nothing; every other reference, the reference with a
\* default to a locally assigned name included, gives one FileRef.
C24_DiscardedReferences ==
    FileScanned =>
        /\ \A k \in 1..Len(FileFindings) : ~isBuiltinVariable(FileFindings[k].name)
        /\ \A n \in ScriptNames : \A i \in 1..Len(fileContent) :
            LET line == fileContent[i]
                plain == IF IsCommentLine(line) THEN 0 ELSE Cardinality(PlainRefsAt(line, n))
                defaulted == IF IsCommentLine(line) THEN 0 ELSE Cardinality(DefaultRefsAt(line, n))
            IN  Cardinality(RefsKept(n, i)) =
                    IF AssignedInFile(n) THEN defaulted ELSE plain + defaulted

\* DB_URL=v follows echo $DB_URL and echo ${DB_URL:-s}... : the reference
\* before the assignment is dropped
C24_Witness ==
    /\ FileScanned
    /\ Len(fileContent) = 2
    /\ PlainRefsAt(fileContent[1], "DB_URL") # {}
    /\ AssignsOn(fileContent[2], "DB_URL")
    /\ DefaultRefsAt(fileContent[2], "DB_URL") = {}
    /\ FileFindings = <<>>

\* a reference with a default to a locally assigned name is kept
C24_WitnessKept ==
    /\ FileScanned
    /\ Len(fileContent) = 2
    /\ AssignsOn(fileContent[1], "DB_URL")
    /\ DefaultRefsAt(fileContent[1], "DB_URL") = {}
    /\ DefaultRefsAt(fileContent[2], "DB_URL") # {}
    /\ Len(FileFindings) = 1
    /\ FileFindings[1].name = "DB_URL"

\* C29: once a kept reference to NAME has supplied a non-empty default, the
\* file's Finding for NAME has a defaultValue and required = FALSE, whatever
\* references to NAME follow.
C29_ShellDefaultSticks ==
    FileScanned =>
        \A n \in ScriptNames :
            (\E i \in 1..Len(fileContent) : \E d \in DefaultTexts :
                ~IsCommentLine(fileContent[i])
                    /\ BracedDefault(fileContent[i], n, <<":", "-">>, d)) =>
                /\ NamedIn(n) # {}
                /\ \A k \in NamedIn(n) :
                        ~FileFindings[k].required /\ Has(FileFindings[k], "defaultValue")

(***************************************************************************)
(* Properties of YamlSpec                                                  *)
(***************************************************************************)
ComposeScanned == FileScanned /\ fileContent.filePath = ComposeFile
WorkflowScanned == FileScanned /\ fileContent.filePath = WorkflowFile

\* the Findings made of the i-th environment entry of a service
FindingsOfEntry(service, i, n) ==
    {k \in 1..Len(FileFindings) :
        /\ FileFindings[k].name = n
        /\ FileFindings[k].files[1].line = i
        /\ FileFindings[k].files[1].context = "Service: " \o service.name}

\* a Finding without default that is required
DemandsValue(f) == f.required /\ ~Has(f, "defaultValue")
\* a Finding that is not required and has the default
Supplies(f, value) == ~f.required /\ Has(f, "defaultValue") /\ f.defaultValue = value

\* what a list entry says: its name, and the value after the equals sign if any
ListName(e) == Join(SubSeq(e, 1, identifierPrefix(e)))
ListHasValue(e) == Len(e) > identifierPrefix(e)
ListValue(e) == Join(SubSeq(e, identifierPrefix(e) + 2, Len(e)))

\* C25: in the environment of a compose service, list or mapping, a bare
\* NAME or a null value gives a Finding with required = TRUE and no
\* defaultValue; a supplied value gives required = FALSE and that value as
\* defaultValue.
C25_ComposeEnvironment ==
    ComposeScanned =>
        \A s \in 1..Len(fileContent.parsed.services) :
            LET service == fileContent.parsed.services[s]
                entries == service.environment.entries
            IN  \A i \in 1..Len(entries) :
                    IF service.environment.format = "array"
                    THEN /\ FindingsOfEntry(service, i, ListName(entries[i].text)) # {}
                         /\ \A k \in FindingsOfEntry(service, i, ListName(entries[i].text)) :
                                IF ListHasValue(entries[i].text)
                                THEN Supplies(FileFindings[k], ListValue(entries[i].text))
                                ELSE DemandsValue(FileFindings[k])
                    ELSE /\ FindingsOfEntry(service, i, entries[i].name) # {}
                         /\ \A k \in FindingsOfEntry(service, i, entries[i].name) :
                                IF entries[i].value.type = "null"
                                THEN DemandsValue(FileFindings[k])
                                ELSE Supplies(FileFindings[k], entries[i].value.value)

IsWorkflowLevel(f) == f.files[1].context = "Workflow environment"

\* C27: the Findings of a workflow come in the order workflow-level env,
\* then each job's env followed by the env of that job's steps: no Finding
\* of a job or step precedes a workflow-level Finding.
C27_WorkflowLevelFirst ==
    WorkflowScanned =>
        \A a, b \in 1..Len(FileFindings) :
            (IsWorkflowLevel(FileFindings[a]) /\ ~IsWorkflowLevel(FileFindings[b])) => a < b

MergedReturned == scanResult.kind = "return"
MergedFindings == scanResult.value

\* the environment entries of the compose document that declare n
Declarations(n) ==
    UNION {{<<s, i>> : i \in {x \in 1..Len(fileContent.parsed.services[s].environment.entries) :
                LET env == fileContent.parsed.services[s].environment
                IN  IF env.format = "array" THEN ListName(env.entries[x].text) = n
                    ELSE env.entries[x].name = n}} :
            s \in 1..Len(fileContent.parsed.services)}

\* C30: every declaration of a variable in a compose file has its own FileRef
\* in the final Finding: a variable declared in two services has two.
C30_OneFileRefPerDeclaration ==
    (ComposeScanned /\ MergedReturned) =>
        \A n \in ScriptNames :
            Declarations(n) # {} =>
                \E k \in 1..Len(MergedFindings) :
                    /\ MergedFindings[k].name = n
                    /\ Len(MergedFindings[k].files) = Cardinality(Declarations(n))

(***************************************************************************)
(* Properties of AstSpec: the findings of one file                         *)
(***************************************************************************)
\* the nodes of the file with the key `${source}:${name}` of node k
SameKey(k) ==
    { j \in 1..Len(AstNodes) :
        AstNodes[j].source = AstNodes[k].source /\ AstNodes[j].name = AstNodes[k].name }

Captured(k) == { j \in SameKey(k) : Has(AstNodes[j], "defaultValue") }

FirstOf(S) == CHOOSE j \in S : \A x \in S : j <= x

\* C26: within one code file the occurrences with the same (source, name)
\* merge into one Finding, which holds a FileRef for every occurrence, is
\* required only if every occurrence lacked a guard, and has as defaultValue
\* the first default captured among them.
C26_FileLocalMerge ==
    AstScanned =>
        \A k \in 1..Len(AstNodes) :
            /\ Cardinality(FindingOf(AstNodes[k])) = 1
            /\ \A x \in FindingOf(AstNodes[k]) :
                    LET f == AstFindings[x]
                    IN  /\ Len(f.files) = Cardinality(SameKey(k))
                        /\ \A j \in SameKey(k) :
                                \E r \in 1..Len(f.files) :
                                    /\ f.files[r].filePath = "/p/src/app.ts"
                                    /\ f.files[r].line = AstNodes[j].location.start.line
                                    /\ f.files[r].column = AstNodes[j].location.start.column
                        /\ f.required = (\A j \in SameKey(k) : ~AstNodes[j].hasGuards)
                        /\ IF Captured(k) = {} THEN ~Has(f, "defaultValue")
                           ELSE /\ Has(f, "defaultValue")
                                /\ f.defaultValue = AstNodes[FirstOf(Captured(k))].defaultValue

\* a file was scanned whose first occurrence of a key is guarded and whose
\* second occurrence of the key, on a later line, is not: the Finding has
\* both FileRefs and is not required
C26_Witness ==
    /\ AstScanned
    /\ \E k \in 1..Len(AstNodes) :
            /\ Cardinality(SameKey(k)) = 2
            /\ \E i, j \in SameKey(k) :
                    /\ i < j
                    /\ AstNodes[i].location.start.line < AstNodes[j].location.start.line
                    /\ AstNodes[i].hasGuards /\ ~AstNodes[j].hasGuards
            /\ \A x \in FindingOf(AstNodes[k]) :
                    ~AstFindings[x].required /\ Len(AstFindings[x].files) = 2

\* a file was scanned in which two occurrences of a key captured different
\* defaults: the Finding has the first
C26_WitnessDefaults ==
    /\ AstScanned
    /\ \E k \in 1..Len(AstNodes) :
            \E i, j \in Captured(k) :
                /\ i < j
                /\ AstNodes[i].defaultValue # AstNodes[j].defaultValue
                /\ \A x \in FindingOf(AstNodes[k]) :
                        AstFindings[x].defaultValue = AstNodes[i].defaultValue

(***************************************************************************)
(* Properties of mergeFindings: the order of the members                   *)
(***************************************************************************)
Reorderings(n) ==
    { p \in [1..n -> 1..n] : \A i, j \in 1..n : p[i] = p[j] => i = j }

Permuted(fs, p) == [i \in 1..Len(fs) |-> fs[p[i]]]

KnownTagged == \A i \in 1..Len(findings) : findings[i].source \in KnownSources

NoteSet(f) == IF Has(f, "notes") THEN {f.notes[i] : i \in 1..Len(f.notes)} ELSE {}

\* C28: for a group of same-named Findings whose sources are all among the
\* seven known tags, mergeFindings gives the same required, isPublic, source
\* and set of (filePath, line, column) positions for every permutation of
\* the group; beyond these the order can change only the defaultValue, the
\* order of the notes and the context kept with a position.
C28_OrderIndependent ==
    (Called /\ Len(findings) >= 1 /\ SameNamed /\ KnownTagged) =>
        /\ outcome.kind = "return"
        /\ \A p \in Reorderings(Len(findings)) :
                LET other == mergeFindings(Permuted(findings, p))
                IN  /\ other.kind = "return"
                    /\ other.value.required = outcome.value.required
                    /\ other.value.isPublic = outcome.value.isPublic
                    /\ other.value.source = outcome.value.source
                    /\ Positions(other.value.files) = Positions(outcome.value.files)
                    /\ other.value.name = outcome.value.name
                    /\ NoteSet(other.value) = NoteSet(outcome.value)

\* a group was merged whose two members differ in source, in required and in
\* position, and whose merged defaultValue depends on their order
C28_Witness ==
    /\ Called /\ Len(findings) = 2 /\ SameNamed /\ KnownTagged
    /\ findings[1].source = "gha" /\ findings[2].source = "ast"
    /\ ~findings[1].required /\ findings[2].required
    /\ Positions(findings[1].files) # Positions(findings[2].files)
    /\ outcome.kind = "return"
    /\ outcome.value.source = "ast" /\ outcome.value.required
    /\ mergeFindings(<<findings[2], findings[1]>>).value # outcome.value

====
